---- MODULE Spec2Model ----
(***************************************************************************)
(* Verification model of the Colab keep-alive bots.                        *)
(*                                                                         *)
(* Part I   UltimateColabSurvival (colab_aggressive_keeper.py): the        *)
(*          survival loop thread, the Flask request handlers that call     *)
(*          start / stop / force_new_session / force_click_now, and the    *)
(*          browser drivers they create and quit.  Specification: Spec.    *)
(*                                                                         *)
(* Part II  UltimateColabKeeper (ultimate_colab_keeper.py): start, stop    *)
(*          and the keeper_loop threads they launch.  Specification:       *)
(*          SpecKeeper.                                                    *)
(*                                                                         *)
(* Part III AIColabSupremeBot (ai_colab_supreme.py): the strategy table,   *)
(*          update_strategies_from_ai, choose_strategy and main_loop.      *)
(*          Specifications: SpecWeights (any sequence of weight updates),  *)
(*          SpecMain (main_loop with the AI decision task), SpecChoose     *)
(*          (choose_strategy over small weight tables).                    *)
(*                                                                         *)
(* Part IV  StrategyEngine and AIColabSupremeBot.main_loop of             *)
(*          ai_colab_supreme_final.py: choose_strategy with the advisor,   *)
(*          update_strategy_stats.  Specification: SpecEngine.             *)
(*                                                                         *)
(* Part V   ColabBot (ai_colab_supreme_render.py): bot_loop,               *)
(*          run_check_cycle, stop, and the click_connect_button fallback   *)
(*          chains of ColabBot and of UltimateColabKeeper.                 *)
(*          Specification: SpecBot.                                        *)
(*                                                                         *)
(* Part VI  UltimateColabSurvival once more, for the stop signal: start,   *)
(*          stop and every survival_loop thread they launch, with the      *)
(*          cycle body as one step.  Specification: SpecStop.              *)
(*                                                                         *)
(* Part VII calculate_sleep_time of ai_colab_supreme.py and of             *)
(*          ai_colab_supreme_final.py, as functions of the results.        *)
(*          Specification: SpecSleep.                                      *)
(*                                                                         *)
(* Part VIII the wait at the end of a survival cycle (survival_loop of     *)
(*          colab_aggressive_keeper.py, step 6) as a function of the       *)
(*          cycle's status, failure count and random factor.               *)
(*          Specification: SpecWait.                                       *)
(*                                                                         *)
(* Part IX  main_loop and health_monitor_loop of                           *)
(*          ai_colab_supreme_final.py as two tasks of one event loop,      *)
(*          with the driver slots of the BrowserManager.                   *)
(*          Specification: SpecAsync.                                      *)
(*                                                                         *)
(* Part X   single calls of UltimateColabKeeper.check_connection_status,   *)
(*          on page texts held as character sequences, and of              *)
(*          StrategyEngine.execute_multi_layer.  Specifications: SpecConn  *)
(*          and SpecMulti.                                                 *)
(*                                                                         *)
(* Weights are held exactly, as integer multiples of a unit: in            *)
(* SpecWeights and SpecMain the unit is 1/Scale, fine enough for           *)
(* MaxUpdates multiplications by 1.2 or 0.8 to stay exact.  A random draw  *)
(* is held in half units, so that a draw strictly between two multiples    *)
(* of the unit can be told from one that hits a multiple.                  *)
(*                                                                         *)
(* A thread whose pc names a driver call is inside that call; the step     *)
(* that leaves the label is the call returning.  Attribute updates such as *)
(* "self.x += 1" are taken as one step.                                    *)
(***************************************************************************)
EXTENDS Integers, Sequences, FiniteSets, TLC

\* ------------------------------------------------------------------ bounds
\* Browsers the environment lets the bot create in one run.
MaxDrivers == 2
\* Cycles one survival loop thread runs before the model stops following it.
MaxCycles == 5
\* HTTP requests (/api/new_session, /api/force, /api/stop) served in one run.
MaxRequests == 1
\* keeper_loop threads one run of UltimateColabKeeper launches.
MaxLoops == 2
\* Calls of update_strategies_from_ai in one run.
MaxUpdates == 9
\* Strategy executions main_loop is followed for.
MaxActions == 3
\* AI decision cycles main_loop is followed for.
MaxDecisions == 2
\* SpecChoose: length of the strategy table and largest weight, in units
\* of 0.05.
ChooseLen == 3
MaxWeight == 3
\* Strategy executions the main_loop of ai_colab_supreme_final.py is
\* followed for.
MaxEngineActions == 2
\* Check cycles bot_loop of ColabBot is followed for.
MaxChecks == 2
\* Calls of UltimateColabKeeper.click_connect_button that are followed.
MaxKeeperClicks == 1
\* SpecStop: 10 s chunks of one inter-cycle sleep (the code has 4 to 30).
MaxChunks == 2
\* SpecSleep: results of one cycle, or actions counted so far.
MaxResults == 10
\* SpecAsync: driver slots of the BrowserManager (MAX_PARALLEL_TABS), cycles
\* main_loop is followed for, and browsers recover_driver creates.
MaxSlots == 2
MaxAsyncCycles == 2
MaxRecovered == 2
\* SpecConn: lines of the page check_connection_status reads.
MaxPageLines == 3

\* ------------------------------------------------------- program constants
\* survival_loop: "session_age.total_seconds() > 11 * 3600".
MaxAgeSeconds == 39600
\* survival_loop: "if consecutive_failures >= 5".
FailureLimit == 5
\* survival_loop: "if cycle % 3 == 0".
ActivityEvery == 3
\* ai_colab_supreme.py: MAX_TABS default, and the strategy_history limits.
MaxTabs == 2
HistoryLimit == 1000
HistoryKeep == 500
\* ai_colab_supreme_final.py: update_strategy_stats, the count limits.
CountLimit == 1000
CountKeep == 500

\* The clock is sampled: the session age is observed just after a reset and
\* one second before, at and one second past the rotation limit.
AgeSamples == {0, MaxAgeSeconds - 1, MaxAgeSeconds, MaxAgeSeconds + 1}

NoDriver == 0

LOOP == "loop"
NEWS == "new_session"
FORCE == "force"
STOP == "stop"
Threads == {LOOP, NEWS, FORCE, STOP}

VARIABLES
    running,              \* self.running
    driver,               \* self.driver: NoDriver (None) or a driver id
    live,                 \* drivers created and not yet quit
    created,              \* number of drivers created so far (next id - 1)
    session_age,          \* now - self.session_start, in seconds (sampled)
    new_sessions,         \* self.new_sessions
    session_counter,      \* self.session_counter
    pc,                   \* position of every thread
    site,                 \* call site of the loop's create_new_session call
    cycle,                \* survival_loop local
    consecutive_failures, \* survival_loop local
    status,               \* survival_loop local
    wait,                 \* survival_loop local: base wait before jitter
    requests,             \* HTTP requests accepted so far
    hist                  \* history of the loop's current cycle (ghost)

survivalVars == <<running, driver, live, created, session_age, new_sessions,
                  session_counter, pc, site, cycle, consecutive_failures,
                  status, wait, requests, hist>>

\* Part II: UltimateColabKeeper (ultimate_colab_keeper.py).
VARIABLES
    is_running,           \* self.is_running
    browser_healthy,      \* self.browser_healthy
    keeper_driver,        \* self.driver: NoDriver or a driver id
    keeper_live,          \* drivers created and not yet quit
    keeper_created,       \* number of drivers created so far
    is_connected,         \* self.is_connected
    total_cycles,         \* self.total_cycles
    successful_cycles,    \* self.successful_cycles
    keeper_failures,      \* self.consecutive_failures
    kpc,                  \* position of every keeper_loop thread
    keeper_navigated,     \* drivers that were sent to the Colab URL (ghost)
    reconnection_attempts, \* self.reconnection_attempts
    dashboard,            \* self.dashboard: total_cycles, reconnections,
                          \* success_rate (tenths of a percent), bot_status
    last_cycle,           \* the last perform_keep_alive call (ghost)
    stop_pc               \* position of the thread running stop()

keeperVars == <<is_running, browser_healthy, keeper_driver, keeper_live,
                keeper_created, is_connected, total_cycles, successful_cycles,
                keeper_failures, kpc, keeper_navigated, reconnection_attempts,
                dashboard, last_cycle, stop_pc>>

\* Part III: AIColabSupremeBot (ai_colab_supreme.py).
VARIABLES
    strategies,           \* self.strategies: sequence of [type, weight]
    tabs,                 \* len(self.drivers)
    recommended,          \* the primary_strategy of every update so far (ghost)
    total_actions,        \* self.metrics.total_actions
    successful_actions,   \* self.metrics.successful_actions
    strategy_history,     \* self.strategy_history: [strategy, success]
    in_cycle,             \* drivers served in the current main_loop cycle
    rand,                 \* choose_strategy: rand, in half units
    chosen                \* index of the strategy choose_strategy returned

supremeVars == <<strategies, tabs, recommended, total_actions,
                 successful_actions, strategy_history, in_cycle, rand, chosen>>

\* Part IV: StrategyEngine and main_loop (ai_colab_supreme_final.py).
VARIABLES
    engine_strategies,    \* StrategyEngine.strategies: sequence of [id, weight]
    success_counts,       \* StrategyEngine.success_counts
    failure_counts,       \* StrategyEngine.failure_counts
    ai_enabled,           \* AIModule.is_enabled
    ai_engine,            \* AIModule.ai_engine is set
    page,                 \* what the Colab tab shows when the cycle starts
    advisor_reply,        \* what the AI service would answer in this cycle
    engine_rand,          \* choose_strategy: rand, in half units
    engine_chosen,        \* index of the strategy choose_strategy returned
    engine_pc,            \* main_loop: "choose" or "execute"
    engine_actions        \* metrics.total_actions

engineVars == <<engine_strategies, success_counts, failure_counts, ai_enabled,
                ai_engine, page, advisor_reply, engine_rand, engine_chosen,
                engine_pc, engine_actions>>

\* Part V: ColabBot (ai_colab_supreme_render.py).
VARIABLES
    bot_running,          \* ColabBot.running
    bot_driver,           \* ColabBot.driver is not None
    bot_pc,               \* position of the bot_loop thread
    bot_stop_pc,          \* position of a thread inside stop()
    total_checks,         \* metrics["total_checks"]
    successful_checks,    \* metrics["successful_checks"]
    failed_checks,        \* metrics["failed_checks"]
    bot_connected,        \* run_check_cycle: is_connected
    clicked,              \* run_check_cycle: clicked ("unset" before 546)
    chain,                \* last call of ColabBot.click_connect_button (ghost)
    kchain,               \* last call of the keeper's click_connect_button (ghost)
    keeper_clicks         \* calls of the keeper's click_connect_button so far

botVars == <<bot_running, bot_driver, bot_pc, bot_stop_pc, total_checks,
             successful_checks, failed_checks, bot_connected, clicked, chain,
             kchain, keeper_clicks>>

\* Part VI: the stop signal of UltimateColabSurvival.
VARIABLES
    sv_running,           \* self.running
    sv_pc,                \* position of each survival_loop thread
    sv_chunks,            \* 10 s chunks each thread still has to sleep
    sv_seen,              \* the thread has read running = False (ghost)
    sv_live,              \* the browser of self.driver is open
    sv_stop_pc            \* position of a thread inside stop()

stopVars == <<sv_running, sv_pc, sv_chunks, sv_seen, sv_live, sv_stop_pc>>

\* Part VII: two successive calls of calculate_sleep_time.
VARIABLES
    sleep_prev,           \* the call before the last: its input and result
    sleep_cur             \* the last call

sleepVars == <<sleep_prev, sleep_cur>>

\* Part VIII: the wait of a survival cycle.
VARIABLES
    wait_call             \* the last computation of the wait: inputs and result

waitVars == <<wait_call>>

\* Part IX: the two tasks of AIColabSupremeBot (ai_colab_supreme_final.py)
\* on their event loop.
VARIABLES
    fb_drivers,           \* self.browser.drivers: a driver id per slot
    fb_health,            \* self.browser.driver_info[i]['health'] per slot
    fb_live,              \* browsers that are open
    fb_created,           \* number of browsers created so far
    fb_turn,              \* the task the event loop is running, or "none"
    fb_main,              \* main_loop: position, slot and driver in use, cycles
    fb_mon                \* health_monitor_loop: position, slots to recover,
                          \* slot being recovered

asyncVars == <<fb_drivers, fb_health, fb_live, fb_created, fb_turn, fb_main, fb_mon>>

\* Part X: single calls of check_connection_status (ultimate_colab_keeper.py)
\* and of execute_multi_layer (ai_colab_supreme_final.py).
VARIABLES
    conn_call,            \* the last check_connection_status: page read, result
    multi_call            \* the last execute_multi_layer: selection, what
                          \* each sub-strategy does, what was run, result

callVars == <<conn_call, multi_call>>

vars == <<survivalVars, keeperVars, supremeVars, engineVars, botVars, stopVars, sleepVars, waitVars, asyncVars, callVars>>

\* What an action of Part I leaves alone.
NotSurvival == UNCHANGED <<keeperVars, supremeVars, engineVars, botVars, stopVars, sleepVars, waitVars, asyncVars, callVars>>

\* --------------------------------------------------------------- helpers
Goto(t, l) == pc' = [pc EXCEPT ![t] = l]

CnsLabels == {"cns_quit", "cns_create", "cns_get", "cns_click",
              "cns_new", "cns_start", "cns_ctr"}

\* hist at the start of a cycle that begins with session age a.
FreshHist(a) == [startAge |-> a, rotCalls |-> 0, hardCalls |-> 0,
                 res |-> "none", ctr0 |-> 0, new0 |-> 0,
                 foreign |-> FALSE, reset |-> FALSE, peak |-> 0,
                 drv0 |-> NoDriver]

\* hist when the loop calls create_new_session from call site s.
CallHist(h, s) == [h EXCEPT
                     !.rotCalls = IF s = "rotate" THEN @ + 1 ELSE @,
                     !.hardCalls = IF s = "hard" THEN @ + 1 ELSE @,
                     !.res = "none", !.ctr0 = session_counter,
                     !.new0 = new_sessions, !.foreign = FALSE,
                     !.reset = FALSE, !.drv0 = driver]

\* A thread other than the loop changes the session statistics.
NoteStats(t, h) == IF t # LOOP THEN [h EXCEPT !.foreign = TRUE] ELSE h

\* Mutant of ShouldRotate: rotates already at the limit.
ShouldRotateAtLimit(age) == age >= MaxAgeSeconds

\* survival_loop, step 1: "session_age.total_seconds() > 11 * 3600".
ShouldRotate(age) == age > MaxAgeSeconds

\* Mutant of TooManyFailures: escalates one failure late.
TooManyFailuresLate(cf) == cf > FailureLimit

\* survival_loop, step 5: "consecutive_failures >= 5".
TooManyFailures(cf) == cf >= FailureLimit

\* survival_loop, line 441, with the condition dropped: the preventative
\* click runs in every connected cycle.
PreventativeDueAlways(c) == TRUE

\* survival_loop, line 441: "if cycle % 3 == 0".
PreventativeDue(c) == c % ActivityEvery = 0

\* survival_loop, step 6, with the long wait of a healthy cycle trebled.
BaseWaitLong(st, cf) == IF st = "disconnected" THEN 60
                        ELSE IF cf > 0 THEN 90 ELSE 360

\* survival_loop, step 6: the base wait before the random factor.
BaseWait(st, cf) == IF st = "disconnected" THEN 60
                    ELSE IF cf > 0 THEN 90 ELSE 120

\* check_colab_status, disconnect_indicators (386-392).
DisconnectIndicators == {"runtime disconnected", "connect to runtime",
                         "click connect", "not connected", "disconnected"}

\* self.driver.page_source.lower() (383): the read raises, or gives a text,
\* held as the set of indicator phrases that occur in it.
PageRead(raises, phrases) == [raises |-> raises, phrases |-> phrases]

\* The reads a driver allows: a browser that was quit only raises.
PageReads(d) ==
    {PageRead(TRUE, {})} \cup
    (IF d \in live THEN {PageRead(FALSE, ph) : ph \in SUBSET DisconnectIndicators}
     ELSE {})

\* check_colab_status (376-402) without its try / except: the exception of
\* the read reaches the caller.
check_colab_status_unguarded(has_driver, read) ==
    IF ~has_driver THEN "no_driver"
    ELSE IF read.raises THEN "raise"
    ELSE IF read.phrases \cap DisconnectIndicators # {} THEN "disconnected"
    ELSE "connected"

\* check_colab_status (376-402).
check_colab_status(has_driver, read) ==
    IF ~has_driver THEN "no_driver"
    ELSE IF read.raises THEN "error"
    ELSE IF read.phrases \cap DisconnectIndicators # {} THEN "disconnected"
    ELSE "connected"

\* check_colab_status: the states it can return for the current driver.
StatusOutcomes ==
    {check_colab_status(driver # NoDriver, read) : read \in PageReads(driver)}

\* driver.quit() under "try ... except: pass": quitting a driver that is
\* already gone changes nothing.
Quit(d) == live \ {d}

\* ------------------------------------------------ strategy table, weights
Min(a, b) == IF a <= b THEN a ELSE b
Max(a, b) == IF a >= b THEN a ELSE b

RECURSIVE Pow(_, _)
Pow(b, n) == IF n = 0 THEN 1 ELSE b * Pow(b, n - 1)

\* Units per 1.0 of weight: twentieths for the initial weights, and a
\* factor 5 for every multiplication by 6/5 or 4/5.
Scale == 20 * Pow(5, MaxUpdates)

\* load_strategies: the types in registration order and their weights
\* 0.3, 0.2, 0.15, 0.15, 0.1, 0.05, 0.05, in twentieths.
StrategyTypes == <<"multi_layer", "cv_button_detection", "dom_analysis",
                   "js_injection", "keyboard_simulation", "session_rotation",
                   "emergency_restart">>
InitialWeights == <<6, 4, 3, 3, 2, 1, 1>>

\* update_strategies_from_ai: the bounds 0.05 and 0.5.
WMin == Scale \div 20
WMax == Scale \div 2

\* load_strategies (445-499): the table, without the CV strategy when
\* ENABLE_CV is not "true".
load_strategies(enable_cv) ==
    SelectSeq([i \in 1 .. Len(StrategyTypes) |->
                  [type |-> StrategyTypes[i],
                   weight |-> InitialWeights[i] * (Scale \div 20)]],
              LAMBDA s : enable_cv \/ s.type # "cv_button_detection")

\* Mutant of Increase: the cap is missing.
IncreaseNoCap(w) == (w \div 5) * 6

\* Line 929: min(strategy['weight'] * 1.2, 0.5).
Increase(w) == Min((w \div 5) * 6, WMax)

\* Mutant of Decrease: the floor is missing.
DecreaseNoFloor(w) == (w \div 5) * 4

\* Line 931: max(strategy['weight'] * 0.8, 0.05).
Decrease(w) == Max((w \div 5) * 4, WMin)

\* update_strategies_from_ai (922-931).
update_strategies_from_ai(strats, primary) ==
    [i \in 1 .. Len(strats) |->
        [strats[i] EXCEPT !.weight = IF strats[i].type = primary
                                     THEN Increase(@) ELSE Decrease(@)]]

\* choose_strategy: cumulative weight of the first i strategies.
RECURSIVE Cum(_, _)
Cum(strats, i) == IF i = 0 THEN 0 ELSE Cum(strats, i - 1) + strats[i].weight

\* Line 1002: total_weight = sum(s['weight'] for s in self.strategies).
TotalWeight(strats) == Cum(strats, Len(strats))

\* Mutant of Scan: the cumulative weight is not accumulated.
RECURSIVE ScanNoSum(_, _, _, _)
ScanNoSum(strats, r2, i, cumulative) ==
    IF i > Len(strats) THEN 1
    ELSE IF r2 <= 2 * strats[i].weight THEN i
    ELSE ScanNoSum(strats, r2, i + 1, cumulative)

\* Lines 1008-1014: the loop "cumulative += weight; if rand <= cumulative:
\* return strategy", from strategy i on, and the final return of the first
\* strategy.  r2 is the draw in half units.
RECURSIVE Scan(_, _, _, _)
Scan(strats, r2, i, cumulative) ==
    IF i > Len(strats) THEN 1
    ELSE IF r2 <= 2 * (cumulative + strats[i].weight) THEN i
    ELSE Scan(strats, r2, i + 1, cumulative + strats[i].weight)

\* choose_strategy (996-1014): the index of the strategy returned for the
\* draw r2, 0 for None.
choose_strategy(strats, r2) ==
    IF Len(strats) = 0 THEN 0
    ELSE IF TotalWeight(strats) = 0 THEN 1
    ELSE Scan(strats, r2, 1, 0)

\* Line 1007: rand = np.random.random() * total_weight lies in
\* [0, total_weight).  All such draws, in half units.
AllDraws(strats) == 0 .. 2 * TotalWeight(strats) - 1

\* The draws that hit a cumulative weight, and one draw strictly between
\* each two neighbouring cumulative weights.
SampleDraws(strats) ==
    {r2 \in {2 * Cum(strats, i) : i \in 0 .. Len(strats)}
            \cup {Cum(strats, i - 1) + Cum(strats, i) : i \in 1 .. Len(strats)} :
        r2 < 2 * TotalWeight(strats)}

\* ------------------------------- StrategyEngine (ai_colab_supreme_final.py)
\* load_strategies (712-781): ids in registration order, weights 0.3, 0.2,
\* 0.15, 0.1, 0.1, 0.05, 0.05, 0.05 in twentieths.
EngineIds == <<"multi_layer", "dom_analysis", "javascript", "keyboard",
               "cv_detection", "session_rotation", "smart_refresh",
               "cell_execution">>
EngineWeights == <<6, 4, 3, 2, 2, 1, 1, 1>>

\* load_strategies: only the enabled strategies are kept; cv_detection is
\* enabled by ENABLE_CV and AI_AVAILABLE (752).
engine_load_strategies(enable_cv) ==
    SelectSeq([i \in 1 .. Len(EngineIds) |->
                  [id |-> EngineIds[i], weight |-> EngineWeights[i]]],
              LAMBDA s : enable_cv \/ s.id # "cv_detection")

RECURSIVE Factorial(_)
Factorial(n) == IF n <= 1 THEN 1 ELSE n * Factorial(n - 1)

\* A common denominator of the success rates s / n, n <= MaxEngineActions.
RateUnit == Factorial(MaxEngineActions)

\* Lines 806-810 without the constant half: adjusted_weight = weight *
\* success_rate.
AdjustedWeightRateOnly(strat, sc, fc) ==
    LET s == sc[strat.id]
        n == Max(s + fc[strat.id], 1)
    IN  strat.weight * (2 * s) * (RateUnit \div n)

\* Lines 806-810: success_rate = s / max(s + f, 1) and adjusted_weight =
\* weight * (0.5 + success_rate * 0.5), in units of 1 / (40 * RateUnit).
AdjustedWeight(strat, sc, fc) ==
    LET s == sc[strat.id]
        n == Max(s + fc[strat.id], 1)
    IN  strat.weight * (n + s) * (RateUnit \div n)

\* Cumulative adjusted weight of the first i strategies.
RECURSIVE EngineCum(_, _, _, _)
EngineCum(strats, sc, fc, i) ==
    IF i = 0 THEN 0
    ELSE EngineCum(strats, sc, fc, i - 1) + AdjustedWeight(strats[i], sc, fc)

EngineTotal(strats, sc, fc) == EngineCum(strats, sc, fc, Len(strats))

\* Lines 820-826: the selection loop from strategy i on, and the final
\* return of the first strategy.
RECURSIVE EngineScan(_, _, _, _, _, _)
EngineScan(strats, sc, fc, r2, i, cumulative) ==
    IF i > Len(strats) THEN 1
    ELSE LET c == cumulative + AdjustedWeight(strats[i], sc, fc)
         IN  IF r2 <= 2 * c THEN i
             ELSE EngineScan(strats, sc, fc, r2, i + 1, c)

\* Lines 801-826: weighted random selection for the draw r2 (half units).
WeightedChoice(strats, sc, fc, r2) ==
    IF EngineTotal(strats, sc, fc) = 0 THEN 1
    ELSE EngineScan(strats, sc, fc, r2, 1, 0)

\* Line 817: random.uniform(0, total_weight); the cumulative weights and
\* one draw strictly between each two neighbours.
EngineDraws(strats, sc, fc) ==
    LET cum == [i \in 0 .. Len(strats) |-> EngineCum(strats, sc, fc, i)]
    IN  {2 * cum[i] : i \in 0 .. Len(strats)}
            \cup {cum[i - 1] + cum[i] : i \in 1 .. Len(strats)}

\* What the AI service may answer: a strategy id (registered or not), or
\* "raise" when the request raises or times out.
AdvisorReplies == {"dom_analysis", "cv_detection", "no_such_strategy",
                   "raise"}

\* AIModule.analyze_and_decide (273-282) followed by ai_decision.get(
\* 'strategy', 'multi_layer') (792): without an engine, or when the engine
\* raises, the fallback decision has no 'strategy' key and the default
\* applies.
analyze_and_decide(enabled, engine, reply) ==
    IF ~enabled \/ ~engine \/ reply = "raise" THEN "multi_layer" ELSE reply

\* asyncio.run (791): called while an event loop is running in this
\* thread it raises RuntimeError without running the coroutine.
asyncio_run(in_loop, result) == IF in_loop THEN "raise" ELSE result

\* Lines 795-797: the index of the strategy whose id is preferred, 0 if
\* there is none.
FindStrategy(strats, preferred) ==
    IF \E i \in 1 .. Len(strats) : strats[i].id = preferred
    THEN CHOOSE i \in 1 .. Len(strats) :
            /\ strats[i].id = preferred
            /\ \A j \in 1 .. i - 1 : strats[j].id # preferred
    ELSE 0

\* Mutant of AfterAdvisorError: a failed advisor call ends the selection.
AfterAdvisorErrorNone(strats, sc, fc, r2) == 0

\* Lines 798-799: "except: pass" falls through to the weighted selection.
AfterAdvisorError(strats, sc, fc, r2) == WeightedChoice(strats, sc, fc, r2)

\* StrategyEngine.choose_strategy (783-826) with a non-empty context: the
\* index of the strategy returned, 0 for None.
engine_choose_strategy(strats, sc, fc, enabled, engine, in_loop, reply, r2) ==
    IF Len(strats) = 0 THEN 0
    ELSE IF enabled
    THEN LET preferred ==
                 asyncio_run(in_loop, analyze_and_decide(enabled, engine, reply))
         IN  IF preferred = "raise"
             THEN AfterAdvisorError(strats, sc, fc, r2)
             ELSE IF FindStrategy(strats, preferred) # 0
             THEN FindStrategy(strats, preferred)
             ELSE WeightedChoice(strats, sc, fc, r2)
    ELSE WeightedChoice(strats, sc, fc, r2)

\* Lines 1256-1259 without the ceiling: the count is kept as it is.
CapCountNever(c) == c

\* Lines 1256-1259: a count above 1000 is set to 500.
CapCount(c) == IF c > CountLimit THEN CountKeep ELSE c

\* StrategyEngine.update_strategy_stats (1248-1259): the two count tables
\* after the call.
update_strategy_stats(sc, fc, id, success) ==
    LET sc1 == IF success THEN [sc EXCEPT ![id] = @ + 1] ELSE sc
        fc1 == IF success THEN fc ELSE [fc EXCEPT ![id] = @ + 1]
    IN  [success_counts |-> [sc1 EXCEPT ![id] = CapCount(@)],
         failure_counts |-> [fc1 EXCEPT ![id] = CapCount(@)]]

\* update_strategy_stats (1248-1259) on one of the two count tables.
BumpCount(counts, id) ==
    LET c == counts[id] + 1
    IN  [counts EXCEPT ![id] = IF c > CountLimit THEN CountKeep ELSE c]

\* What the Colab tab can show when a cycle starts.
Pages == {"connected", "disconnected", "login"}

\* ------------------------------------- click_connect_button fallback chains
\* ColabBot.click_connect_button (301-308): the strategies in listed order.
ChainOrder == <<"aria_label", "button_text", "css_selector", "xpath",
                "javascript", "keyboard_shortcut">>

\* UltimateColabKeeper.click_connect_button (415-420).
KeeperChainOrder == <<"selector", "xpath", "javascript", "class">>

\* What each strategy of a chain would return if it were run.
Outcomes(order) == [1 .. Len(order) -> BOOLEAN]

\* The first strategy that would succeed, 0 if none would.
FirstSuccess(outcomes) ==
    IF \E i \in DOMAIN outcomes : outcomes[i]
    THEN CHOOSE i \in DOMAIN outcomes :
            outcomes[i] /\ \A j \in DOMAIN outcomes : outcomes[j] => i <= j
    ELSE 0

\* Mutant of Walk: a success does not end the walk.
RECURSIVE WalkAll(_, _, _, _)
WalkAll(order, outcomes, i, attempted) ==
    IF i > Len(order)
    THEN [ret |-> \E k \in DOMAIN outcomes : outcomes[k], attempted |-> attempted]
    ELSE WalkAll(order, outcomes, i + 1, Append(attempted, order[i]))

\* "for strategy in strategies: if strategy(): return True" and the
\* "return False" after it (render 310-314, keeper 422-425), from strategy
\* i on: the value returned and the strategies that were run.
RECURSIVE Walk(_, _, _, _)
Walk(order, outcomes, i, attempted) ==
    IF i > Len(order) THEN [ret |-> FALSE, attempted |-> attempted]
    ELSE IF outcomes[i]
    THEN [ret |-> TRUE, attempted |-> Append(attempted, order[i])]
    ELSE Walk(order, outcomes, i + 1, Append(attempted, order[i]))

\* ColabBot.click_connect_button (295-318).
click_connect_button(has_driver, outcomes) ==
    IF ~has_driver THEN [ret |-> FALSE, attempted |-> <<>>]
    ELSE Walk(ChainOrder, outcomes, 1, <<>>)

\* UltimateColabKeeper.click_connect_button (413-425).
keeper_click_connect_button(outcomes) == Walk(KeeperChainOrder, outcomes, 1, <<>>)

\* The record kept of a call: where it was made, whether the bot had a
\* driver, the first strategy that would succeed, and what the call did.
CallRecord(where, has_driver, outcomes, result) ==
    [site |-> where, driver |-> has_driver, first |-> FirstSuccess(outcomes),
     ret |-> result.ret, attempted |-> result.attempted]

NoCall == [site |-> "none", driver |-> FALSE, first |-> 0, ret |-> FALSE,
           attempted |-> <<>>]

\* Mutant of CountsAsSuccess: every cycle counts as a success.
CountsAsSuccessAlways(connected, click) == TRUE

\* run_check_cycle, line 566: "if is_connected or clicked".
CountsAsSuccess(connected, click) == connected \/ click = "true"

\* ------------------------------------------------------------------ Init
LoopIds == 1 .. MaxLoops

\* BrowserManager.initialize (554-574) with n browsers created, and
\* AIColabSupremeBot.initialize / start (1290-1313, 1519-1531): both tasks
\* are created and none has run yet.
AsyncStart(n) ==
    /\ fb_drivers = [i \in 1 .. n |-> i]
    /\ fb_health = [i \in 1 .. n |-> TRUE]
    /\ fb_live = 1 .. n
    /\ fb_created = n
    /\ fb_turn = "none"
    /\ fb_main = [pc |-> "ready", idx |-> 0, drv |-> NoDriver, cycles |-> 0]
    /\ fb_mon = [pc |-> "ready", todo |-> {}, idx |-> 0]

AsyncInit == AsyncStart(MaxSlots)

\* No call of check_connection_status or execute_multi_layer yet.
NoConnCall == [page |-> <<>>, raised |-> FALSE, ret |-> FALSE, called |-> FALSE]

NoMultiCall == [selected |-> <<>>, outcomes |-> <<>>, ran |-> <<>>,
                success |-> FALSE, phase |-> "none"]

CallInit == conn_call = NoConnCall /\ multi_call = NoMultiCall

\* No wait computed yet.
NoWait == [status |-> "none", failures |-> 0, factor |-> 100, base |-> 0, wait |-> 0]

WaitInit == wait_call = NoWait

\* No call of calculate_sleep_time yet.
NoSleep == [impl |-> "none", base |-> 0, successes |-> 0, total |-> 0, sleep |-> 0]

SleepInit ==
    /\ sleep_prev = NoSleep
    /\ sleep_cur = NoSleep

\* UltimateColabSurvival.__init__ (64-82), no thread launched yet.
StopInit ==
    /\ sv_running = FALSE
    /\ sv_pc = [t \in LoopIds |-> "unborn"]
    /\ sv_chunks = [t \in LoopIds |-> 0]
    /\ sv_seen = [t \in LoopIds |-> FALSE]
    /\ sv_live = FALSE
    /\ sv_stop_pc = "idle"

\* ColabBot.__init__ (272-294).
BotInit ==
    /\ bot_running = FALSE
    /\ bot_driver = FALSE
    /\ bot_pc = "none"
    /\ bot_stop_pc = "idle"
    /\ total_checks = 0
    /\ successful_checks = 0
    /\ failed_checks = 0
    /\ bot_connected = FALSE
    /\ clicked = "unset"
    /\ chain = NoCall
    /\ kchain = NoCall
    /\ keeper_clicks = 0

\* AIModule.__init__ (246-254), StrategyEngine.__init__ (704-710) and the
\* start of main_loop.
EngineInit(enabled, engine, enable_cv) ==
    /\ engine_strategies = engine_load_strategies(enable_cv)
    /\ success_counts = [i \in {EngineIds[k] : k \in 1 .. Len(EngineIds)} |-> 0]
    /\ failure_counts = [i \in {EngineIds[k] : k \in 1 .. Len(EngineIds)} |-> 0]
    /\ ai_enabled = enabled
    /\ ai_engine = engine
    /\ page = "connected"
    /\ advisor_reply = "raise"
    /\ engine_rand = 0
    /\ engine_chosen = 0
    /\ engine_pc = "choose"
    /\ engine_actions = 0

\* AIColabSupremeBot.__init__, initialize and the head of main_loop, with
\* the strategy table strats and n drivers.
SupremeInit(strats, n) ==
    /\ strategies = strats
    /\ tabs = n
    /\ recommended = <<>>
    /\ total_actions = 0
    /\ successful_actions = 0
    /\ strategy_history = <<>>
    /\ in_cycle = 0
    /\ rand = 0
    /\ chosen = 0

\* No perform_keep_alive call yet.
NoCycle == [ret |-> FALSE, check |-> "none", raised |-> FALSE]

\* UltimateColabKeeper.__init__.
KeeperInit ==
    /\ is_running = FALSE
    /\ browser_healthy = FALSE
    /\ keeper_driver = NoDriver
    /\ keeper_live = {}
    /\ keeper_created = 0
    /\ is_connected = FALSE
    /\ total_cycles = 0
    /\ successful_cycles = 0
    /\ keeper_failures = 0
    /\ kpc = [t \in LoopIds |-> "unborn"]
    /\ keeper_navigated = {}
    /\ reconnection_attempts = 0
    /\ dashboard = [total_cycles |-> 0, reconnections |-> 0, success_rate |-> 1000,
                    bot_status |-> "offline"]
    /\ last_cycle = NoCycle
    /\ stop_pc = "idle"

\* UltimateColabSurvival.__init__.
SurvivalInit ==
    /\ running = FALSE
    /\ driver = NoDriver
    /\ live = {}
    /\ created = 0
    /\ session_age = 0
    /\ new_sessions = 0
    /\ session_counter = 0
    /\ pc = [t \in Threads |-> IF t = LOOP THEN "none" ELSE "idle"]
    /\ site = "init"
    /\ cycle = 0
    /\ consecutive_failures = 0
    /\ status = "none"
    /\ wait = 0
    /\ requests = 0
    /\ hist = FreshHist(0)

Init ==
    /\ SurvivalInit /\ KeeperInit
    /\ SupremeInit(load_strategies(TRUE), MaxTabs)
    /\ EngineInit(TRUE, TRUE, TRUE)
    /\ BotInit
    /\ StopInit
    /\ SleepInit
    /\ WaitInit /\ AsyncInit /\ CallInit

\* ------------------------------------------------- create_new_session
\* The loop's return from create_new_session, by call site.
\*   init   (409-414): False ends the thread, True enters the while loop;
\*   rotate (425-426): the result is only logged;
\*   hard   (466-478): the result is ignored, the failure count is zeroed.
LoopReturn(ok) ==
    /\ hist' = [hist EXCEPT !.res = IF ok THEN "ok" ELSE "fail"]
    /\ site' = site
    /\ status' = status
    /\ requests' = requests
    /\ CASE site = "init" ->
              /\ Goto(LOOP, IF ok THEN "top" ELSE "exited")
              /\ cycle' = 0
              /\ consecutive_failures' = 0
              /\ wait' = wait
         [] site = "rotate" ->
              /\ Goto(LOOP, "check")
              /\ UNCHANGED <<cycle, consecutive_failures, wait>>
         [] OTHER ->
              /\ Goto(LOOP, "sleep")
              /\ consecutive_failures' = 0
              /\ wait' = BaseWait(status, 0)
              /\ cycle' = cycle

\* force_new_session returns create_new_session's result to the handler.
Return(t, ok) ==
    IF t = LOOP THEN LoopReturn(ok)
    ELSE /\ Goto(t, "idle")
         /\ UNCHANGED <<site, cycle, consecutive_failures, status, wait,
                        requests, hist>>

Stay == UNCHANGED <<site, cycle, consecutive_failures, status, wait, requests>>

\* Lines 158-162: close the old driver.
CnsQuit(t) ==
    /\ pc[t] = "cns_quit"
    /\ live' = IF driver # NoDriver THEN Quit(driver) ELSE live
    /\ Goto(t, "cns_create")
    /\ Stay
    /\ UNCHANGED <<running, driver, created, session_age, new_sessions,
                   session_counter, hist>>
    /\ NotSurvival

\* Lines 165-167: self.driver = self.create_stealth_driver(), a new
\* browser or None; None returns False.
CnsCreateOk(t) ==
    /\ pc[t] = "cns_create"
    /\ created < MaxDrivers
    /\ created' = created + 1
    /\ driver' = created + 1
    /\ live' = live \cup {created + 1}
    /\ Goto(t, "cns_get")
    /\ Stay
    /\ UNCHANGED <<running, session_age, new_sessions, session_counter, hist>>
    /\ NotSurvival

CnsCreateFail(t) ==
    /\ pc[t] = "cns_create"
    /\ driver' = NoDriver
    /\ Return(t, FALSE)
    /\ UNCHANGED <<running, live, created, session_age, new_sessions,
                   session_counter>>
    /\ NotSurvival

\* Lines 170-175: self.driver.get(fresh_url); an exception returns False.
CnsGetOk(t) ==
    /\ pc[t] = "cns_get"
    /\ driver \in live
    /\ Goto(t, "cns_click")
    /\ Stay
    /\ UNCHANGED <<running, driver, live, created, session_age, new_sessions,
                   session_counter, hist>>
    /\ NotSurvival

CnsGetFail(t) ==
    /\ pc[t] = "cns_get"
    /\ Return(t, FALSE)
    /\ UNCHANGED <<running, driver, live, created, session_age, new_sessions,
                   session_counter>>
    /\ NotSurvival

\* Line 178: self.aggressive_click(), result unused, exceptions swallowed.
CnsClick(t) ==
    /\ pc[t] = "cns_click"
    /\ Goto(t, "cns_new")
    /\ Stay
    /\ UNCHANGED <<running, driver, live, created, session_age, new_sessions,
                   session_counter, hist>>
    /\ NotSurvival

\* Line 181: self.new_sessions += 1.
CnsNew(t) ==
    /\ pc[t] = "cns_new"
    /\ new_sessions' = new_sessions + 1
    /\ hist' = NoteStats(t, hist)
    /\ Goto(t, "cns_start")
    /\ Stay
    /\ UNCHANGED <<running, driver, live, created, session_age, session_counter>>
    /\ NotSurvival

\* Line 182: self.session_start = datetime.now().
CnsStart(t) ==
    /\ pc[t] = "cns_start"
    /\ session_age' = 0
    /\ hist' = IF t = LOOP THEN [hist EXCEPT !.reset = TRUE] ELSE hist
    /\ Goto(t, "cns_ctr")
    /\ Stay
    /\ UNCHANGED <<running, driver, live, created, new_sessions, session_counter>>
    /\ NotSurvival

\* Lines 183-187: self.session_counter += 1; return True.
CnsCtr(t) ==
    /\ pc[t] = "cns_ctr"
    /\ session_counter' = session_counter + 1
    /\ IF t = LOOP
       THEN LoopReturn(TRUE)
       ELSE /\ Goto(t, "idle")
            /\ hist' = NoteStats(t, hist)
            /\ Stay
    /\ UNCHANGED <<running, driver, live, created, session_age, new_sessions>>
    /\ NotSurvival

create_new_session(t) ==
    \/ CnsQuit(t)
    \/ CnsCreateOk(t)
    \/ CnsCreateFail(t)
    \/ CnsGetOk(t)
    \/ CnsGetFail(t)
    \/ CnsClick(t)
    \/ CnsNew(t)
    \/ CnsStart(t)
    \/ CnsCtr(t)

\* ------------------------------------------------------- survival_loop
CnsFrame == UNCHANGED <<running, driver, live, created, session_age,
                        new_sessions, session_counter, requests>>

\* start() (506-517), called by main() and by /api/start.  It is followed
\* here only while no loop thread is alive: what a second loop thread does
\* is the subject of Part II.
Start ==
    /\ ~running
    /\ pc[LOOP] \in {"none", "exited"}
    /\ running' = TRUE
    /\ Goto(LOOP, "cns_quit")
    /\ site' = "init"
    /\ hist' = CallHist(FreshHist(session_age), "init")
    /\ UNCHANGED <<driver, live, created, session_age, new_sessions,
                   session_counter, cycle, consecutive_failures, status, wait,
                   requests>>
    /\ NotSurvival

\* Lines 416-426: the while test, cycle += 1, and the age check.
LoopTopStop ==
    /\ pc[LOOP] = "top"
    /\ ~running
    /\ Goto(LOOP, "cleanup")
    /\ UNCHANGED <<site, cycle, consecutive_failures, status, wait, hist>>
    /\ CnsFrame
    /\ NotSurvival

LoopTop ==
    /\ pc[LOOP] = "top"
    /\ running
    /\ cycle < MaxCycles
    /\ cycle' = cycle + 1
    /\ IF ShouldRotate(session_age)
       THEN /\ Goto(LOOP, "cns_quit")
            /\ site' = "rotate"
            /\ hist' = CallHist(FreshHist(session_age), "rotate")
       ELSE /\ Goto(LOOP, "check")
            /\ site' = site
            /\ hist' = FreshHist(session_age)
    /\ UNCHANGED <<consecutive_failures, status, wait>>
    /\ CnsFrame
    /\ NotSurvival

\* Lines 429-446: status = self.check_colab_status() and the branch on it.
\* The disconnected branch counts its failure after aggressive_click.
Check ==
    /\ pc[LOOP] = "check"
    /\ \E st \in StatusOutcomes :
          /\ status' = st
          /\ CASE st = "disconnected" ->
                    /\ Goto(LOOP, "click")
                    /\ consecutive_failures' = consecutive_failures
               [] st = "connected" ->
                    /\ Goto(LOOP, IF PreventativeDue(cycle)
                                  THEN "click" ELSE "inject")
                    /\ consecutive_failures' = 0
               [] OTHER ->
                    /\ Goto(LOOP, "inject")
                    /\ consecutive_failures' = consecutive_failures + 1
    /\ UNCHANGED <<site, cycle, wait, hist>>
    /\ CnsFrame
    /\ NotSurvival

\* Lines 433-435 and 443: aggressive_click returns.
Click ==
    /\ pc[LOOP] = "click"
    /\ consecutive_failures' = IF status = "disconnected"
                               THEN consecutive_failures + 1
                               ELSE consecutive_failures
    /\ Goto(LOOP, "inject")
    /\ UNCHANGED <<site, cycle, status, wait, hist>>
    /\ CnsFrame
    /\ NotSurvival

\* Lines 464-482, entered once the keep-alive (and refresh) are done:
\* the hard reset when there were too many failures, else the base wait.
AfterKeepAlive ==
    /\ IF TooManyFailures(consecutive_failures)
       THEN /\ Goto(LOOP, "cns_quit")
            /\ site' = "hard"
            /\ hist' = [CallHist(hist, "hard") EXCEPT
                           !.peak = consecutive_failures]
            /\ wait' = wait
       ELSE /\ Goto(LOOP, "sleep")
            /\ site' = site
            /\ hist' = [hist EXCEPT !.peak = consecutive_failures]
            /\ wait' = BaseWait(status, consecutive_failures)
    /\ UNCHANGED <<cycle, consecutive_failures, status>>
    /\ CnsFrame

\* Lines 449-461: self.inject_ultimate_keepalive() and, in every tenth
\* cycle, driver.refresh() with a second injection.  All of them are driver
\* calls of the loop thread that change none of the modelled fields
\* (self.refreshes is not modelled), so they are one step.
Inject ==
    /\ pc[LOOP] = "inject"
    /\ AfterKeepAlive
    /\ NotSurvival

\* Lines 487-490: the sleep in 10 s chunks, left early when running is
\* cleared.
Sleep ==
    /\ pc[LOOP] = "sleep"
    /\ Goto(LOOP, "top")
    /\ UNCHANGED <<site, cycle, consecutive_failures, status, wait, hist>>
    /\ CnsFrame
    /\ NotSurvival

\* Lines 499-504: the loop's cleanup quits self.driver; the thread ends.
Cleanup ==
    /\ pc[LOOP] = "cleanup"
    /\ live' = IF driver # NoDriver THEN Quit(driver) ELSE live
    /\ Goto(LOOP, "exited")
    /\ UNCHANGED <<running, driver, created, session_age, new_sessions,
                   session_counter, site, cycle, consecutive_failures,
                   status, wait, requests, hist>>
    /\ NotSurvival

survival_loop ==
    \/ create_new_session(LOOP)
    \/ LoopTopStop
    \/ LoopTop
    \/ Check
    \/ Click
    \/ Inject
    \/ Sleep
    \/ Cleanup

\* ------------------------------------------------------ request handlers
LoopFrame == UNCHANGED <<site, cycle, consecutive_failures, status, wait, hist>>

\* /api/new_session -> force_new_session() (536-539).
Accept == requests < MaxRequests /\ requests' = requests + 1

NewSessionRequest ==
    /\ pc[NEWS] = "idle"
    /\ Accept
    /\ Goto(NEWS, "cns_quit")
    /\ LoopFrame
    /\ UNCHANGED <<running, driver, live, created, session_age,
                   new_sessions, session_counter>>
    /\ NotSurvival

force_new_session == NewSessionRequest \/ create_new_session(NEWS)

\* /api/force -> force_click_now() (541-546): clicks only with a driver
\* and the running flag set.
ForceRequest ==
    /\ pc[FORCE] = "idle"
    /\ driver # NoDriver
    /\ running
    /\ Accept
    /\ Goto(FORCE, "click")
    /\ LoopFrame
    /\ UNCHANGED <<running, driver, live, created, session_age,
                   new_sessions, session_counter>>
    /\ NotSurvival

ForceClick ==
    /\ pc[FORCE] = "click"
    /\ Goto(FORCE, "idle")
    /\ LoopFrame
    /\ CnsFrame
    /\ NotSurvival

force_click_now == ForceRequest \/ ForceClick

\* stop() (519-534): clear the flag, join the thread for at most 30 s,
\* quit the driver.
StopRequest ==
    /\ pc[STOP] = "idle"
    /\ Accept
    /\ running' = FALSE
    /\ Goto(STOP, "join")
    /\ LoopFrame
    /\ UNCHANGED <<driver, live, created, session_age, new_sessions,
                   session_counter>>
    /\ NotSurvival

\* thread.join(timeout=30) returns when the thread has ended or when the
\* 30 s are over, wherever the loop then is.
StopJoin ==
    /\ pc[STOP] = "join"
    /\ Goto(STOP, "quit")
    /\ LoopFrame
    /\ CnsFrame
    /\ NotSurvival

StopQuit ==
    /\ pc[STOP] = "quit"
    /\ live' = IF driver # NoDriver THEN Quit(driver) ELSE live
    /\ Goto(STOP, "idle")
    /\ LoopFrame
    /\ UNCHANGED <<running, driver, created, session_age, new_sessions,
                   session_counter, requests>>
    /\ NotSurvival

stop == StopRequest \/ StopJoin \/ StopQuit

\* Time passes: the session age moves on to a later sample.  The age is
\* read only at the top of a cycle, so the time that passed since the last
\* reading is let pass while the loop sleeps before it.
Tick ==
    /\ pc[LOOP] = "sleep"
    /\ \E a \in AgeSamples : a > session_age /\ session_age' = a
    /\ LoopFrame
    /\ UNCHANGED <<running, driver, live, created, new_sessions,
                   session_counter, pc, requests>>
    /\ NotSurvival

Next ==
    \/ Start
    \/ survival_loop
    \/ force_new_session
    \/ force_click_now
    \/ stop
    \/ Tick

Spec == Init /\ [][Next]_vars

\* ======================================================== Part I, claims
\* The rotation phase of the current cycle is over.
AfterRotation == pc[LOOP] = "check"

\* The current cycle's work is over, the loop sleeps.
AfterCycle == pc[LOOP] = "sleep"

\* C1 (as amended): a cycle that starts with session age <= 11 h calls
\* create_new_session for rotation not at all, one that starts with age
\* > 11 h calls it exactly once.  If that call succeeds the session age is
\* reset to 0 and, no other thread creating a session meanwhile,
\* session_counter and new_sessions have each gone from N to N+1; if it
\* fails the call resets nothing and leaves both counters alone.
C1_RotationOncePerCycle ==
    AfterRotation =>
        /\ hist.rotCalls = IF hist.startAge > MaxAgeSeconds THEN 1 ELSE 0
        /\ (hist.rotCalls = 1 /\ hist.res = "ok") =>
               /\ hist.reset
               /\ session_age = 0
               /\ ~hist.foreign => /\ session_counter = hist.ctr0 + 1
                                   /\ new_sessions = hist.new0 + 1
        /\ (hist.rotCalls = 1 /\ hist.res = "fail") =>
               /\ ~hist.reset
               /\ ~hist.foreign => /\ session_counter = hist.ctr0
                                   /\ new_sessions = hist.new0

\* C1 witness: a cycle that began past the limit has rotated successfully.
C1_Witness ==
    /\ AfterRotation
    /\ hist.startAge = MaxAgeSeconds + 1
    /\ hist.rotCalls = 1
    /\ hist.res = "ok"
    /\ session_age = 0
    /\ session_counter = hist.ctr0 + 1

\* C1 as stated: every cycle that starts past the limit ends its rotation
\* with the age reset to 0 and both counters gone from N to N+1.
C1_Original ==
    AfterRotation =>
        /\ hist.rotCalls = IF hist.startAge > MaxAgeSeconds THEN 1 ELSE 0
        /\ hist.rotCalls = 1 =>
               /\ session_age = 0
               /\ session_counter = hist.ctr0 + 1
               /\ new_sessions = hist.new0 + 1

C3_LoopNeverExits == running => pc[LOOP] # "exited"

\* Thread t is inside a call on self.driver.
OnDriver(t) ==
    \/ pc[t] \in {"cns_get", "cns_click", "check", "click", "inject"}
    \/ pc[t] \in {"cns_quit", "cleanup", "quit"} /\ driver # NoDriver

\* C4 as stated: no two threads are inside calls on the bot's driver at
\* the same time; in particular nothing overlaps a create_new_session.
C4_ExclusiveDriver ==
    \A t, u \in Threads : (t # u /\ OnDriver(t)) => ~OnDriver(u)

\* C6 as stated: at most one driver is live, and self.driver is that one.
C6_OneLiveDriver ==
    /\ Cardinality(live) <= 1
    /\ live # {} => driver \in live

\* C33 as stated: if create_new_session fails during the proactive rotation
\* of survival_loop, the loop continues with the old session: the driver it
\* had before the call is still self.driver and still open, session_start
\* was not reset, and session_counter and new_sessions are what they were.
C33_FailedRotationKeepsSession ==
    (pc[LOOP] = "check" /\ hist.rotCalls = 1 /\ hist.res = "fail") =>
        /\ driver = hist.drv0
        /\ driver \in live
        /\ ~hist.reset
        /\ ~hist.foreign => /\ session_counter = hist.ctr0
                            /\ new_sessions = hist.new0

\* ============================================ Part II, UltimateColabKeeper
NotKeeper == UNCHANGED <<survivalVars, supremeVars, engineVars, botVars, stopVars, sleepVars, waitVars, asyncVars, callVars>>

KGoto(t, l) == kpc' = [kpc EXCEPT ![t] = l]

\* self.dashboard["bot_status"] = s, the other fields of the dashboard kept.
SetBotStatus(s) == dashboard' = [dashboard EXCEPT !.bot_status = s]

\* start() (764-780) and /api/start (1440-1450): refused while is_running
\* is set, otherwise sets it and launches a new keeper_loop thread.  The
\* test and the assignment are taken as one step.
KeeperStart ==
    /\ ~is_running
    /\ \E t \in LoopIds :
          /\ kpc[t] = "unborn"
          /\ \A u \in LoopIds : u < t => kpc[u] # "unborn"
          /\ KGoto(t, "setup")
    /\ is_running' = TRUE
    /\ UNCHANGED <<browser_healthy, keeper_driver, keeper_live, keeper_created,
                   is_connected, total_cycles, successful_cycles,
                   keeper_failures, stop_pc>>
    /\ SetBotStatus("initializing")
    /\ UNCHANGED <<keeper_navigated, reconnection_attempts, last_cycle>>
    /\ NotKeeper

\* stop() (782-803) behind /api/stop (1452-1462): clears is_running, then
\* quits the driver.  It neither joins the thread nor clears
\* browser_healthy or self.driver.
KeeperStopRequest ==
    /\ stop_pc = "idle"
    /\ is_running
    /\ is_running' = FALSE
    /\ stop_pc' = "quit"
    /\ UNCHANGED <<browser_healthy, keeper_driver, keeper_live, keeper_created,
                   is_connected, total_cycles, successful_cycles,
                   keeper_failures, kpc>>
    /\ UNCHANGED <<keeper_navigated, reconnection_attempts, dashboard, last_cycle>>
    /\ NotKeeper

KeeperStopQuit ==
    /\ stop_pc = "quit"
    /\ keeper_live' = keeper_live \ {keeper_driver}
    /\ stop_pc' = "idle"
    /\ UNCHANGED <<is_running, browser_healthy, keeper_driver, keeper_created,
                   is_connected, total_cycles, successful_cycles,
                   keeper_failures, kpc>>
    /\ SetBotStatus("stopped")
    /\ UNCHANGED <<keeper_navigated, reconnection_attempts, last_cycle>>
    /\ NotKeeper

\* setup_browser() (297-359) succeeding: a new browser in self.driver.
SetupBrowserOk ==
    /\ keeper_created < MaxDrivers
    /\ keeper_created' = keeper_created + 1
    /\ keeper_driver' = keeper_created + 1
    /\ browser_healthy' = TRUE

\* keeper_loop, initial setup (699-702).
SetupSkip(t) ==
    /\ kpc[t] = "setup"
    /\ browser_healthy
    /\ KGoto(t, "navigate")
    /\ UNCHANGED <<is_running, browser_healthy, keeper_driver, keeper_live,
                   keeper_created, is_connected, total_cycles,
                   successful_cycles, keeper_failures, stop_pc>>
    /\ SetBotStatus("starting")
    /\ UNCHANGED <<keeper_navigated, reconnection_attempts, last_cycle>>
    /\ NotKeeper

SetupOk(t) ==
    /\ kpc[t] = "setup"
    /\ ~browser_healthy
    /\ SetupBrowserOk
    /\ keeper_live' = keeper_live \cup {keeper_created + 1}
    /\ KGoto(t, "navigate")
    /\ UNCHANGED <<is_running, is_connected, total_cycles, successful_cycles,
                   keeper_failures, stop_pc>>
    /\ SetBotStatus("starting")
    /\ UNCHANGED <<keeper_navigated, reconnection_attempts, last_cycle>>
    /\ NotKeeper

SetupFail(t) ==
    /\ kpc[t] = "setup"
    /\ ~browser_healthy
    /\ KGoto(t, "exited")
    /\ UNCHANGED <<is_running, browser_healthy, keeper_driver, keeper_live,
                   keeper_created, is_connected, total_cycles,
                   successful_cycles, keeper_failures, stop_pc>>
    /\ SetBotStatus("starting")
    /\ UNCHANGED <<keeper_navigated, reconnection_attempts, last_cycle>>
    /\ NotKeeper

\* keeper_loop, initial navigation (704-706): navigate_to_colab() (361-391)
\* fails on a dead driver and may fail on a live one; failure ends the
\* thread.
Navigate(t) ==
    /\ kpc[t] = "navigate"
    /\ \E ok \in BOOLEAN :
          /\ ok => keeper_driver \in keeper_live
          /\ KGoto(t, IF ok THEN "top" ELSE "exited")
          /\ keeper_navigated' = IF ok THEN keeper_navigated \cup {keeper_driver}
                                  ELSE keeper_navigated
    /\ UNCHANGED <<is_running, browser_healthy, keeper_driver, keeper_live,
                   keeper_created, is_connected, total_cycles,
                   successful_cycles, keeper_failures, stop_pc>>
    /\ UNCHANGED <<reconnection_attempts, dashboard, last_cycle>>
    /\ NotKeeper

\* keeper_loop: "while self.is_running" (709).
KeeperTop(t) ==
    /\ kpc[t] = "top"
    /\ KGoto(t, IF is_running THEN "monitor" ELSE "exited")
    /\ UNCHANGED <<is_running, browser_healthy, keeper_driver, keeper_live,
                   keeper_created, is_connected, total_cycles,
                   successful_cycles, keeper_failures, stop_pc>>
    /\ UNCHANGED <<keeper_navigated, reconnection_attempts, dashboard, last_cycle>>
    /\ NotKeeper

\* monitor_and_recover() (669-690), browser responsive.
MonitorHealthy(t) ==
    /\ kpc[t] = "monitor"
    /\ keeper_driver \in keeper_live
    /\ browser_healthy' = TRUE
    /\ KGoto(t, "keepalive")
    /\ UNCHANGED <<is_running, keeper_driver, keeper_live, keeper_created,
                   is_connected, total_cycles, successful_cycles,
                   keeper_failures, stop_pc>>
    /\ UNCHANGED <<keeper_navigated, reconnection_attempts, dashboard, last_cycle>>
    /\ NotKeeper

\* monitor_and_recover(), browser unresponsive: quit it, set up a new one.
MonitorRecover(t) ==
    /\ kpc[t] = "monitor"
    /\ SetupBrowserOk
    /\ keeper_live' = (keeper_live \ {keeper_driver}) \cup {keeper_created + 1}
    /\ KGoto(t, "keepalive")
    /\ UNCHANGED <<is_running, is_connected, total_cycles, successful_cycles,
                   keeper_failures, stop_pc>>
    /\ UNCHANGED <<keeper_navigated, reconnection_attempts, dashboard, last_cycle>>
    /\ NotKeeper

\* monitor_and_recover() failing (716-719): sleep 30 s and continue.
MonitorFail(t) ==
    /\ kpc[t] = "monitor"
    /\ browser_healthy' = FALSE
    /\ keeper_live' = keeper_live \ {keeper_driver}
    /\ KGoto(t, "sleep")
    /\ UNCHANGED <<is_running, keeper_driver, keeper_created, is_connected,
                   total_cycles, successful_cycles, keeper_failures, stop_pc>>
    /\ UNCHANGED <<keeper_navigated, reconnection_attempts, dashboard, last_cycle>>
    /\ NotKeeper

\* f"{success_rate:.1f}%" (643-644): successful / total as a percentage
\* with one decimal, held in tenths of a percent (no tie occurs for the
\* totals reached here).
SuccessRate(successful, total) == (2000 * successful + total) \div (2 * total)

\* perform_keep_alive, line 636, with the final check ignored: a cycle
\* whose actions raised nothing counts.
CycleSucceedsUnchecked(raised, check2) == ~raised

\* perform_keep_alive, line 636: "if self.check_connection_status()" inside
\* the try.
CycleSucceeds(raised, check2) == ~raised /\ check2

\* Lines 638, 659 and 664 without the increment of the exception handler: a
\* cycle that raised leaves the count as it is.
FailuresAfterUncounted(ok, raised, failures) ==
    IF ok THEN 0 ELSE IF raised THEN failures ELSE failures + 1

\* self.consecutive_failures after a cycle: reset on success (638), one more
\* after a failed final check (659) and after an exception (664).
FailuresAfter(ok, raised, failures) ==
    IF ok THEN 0 ELSE failures + 1

\* perform_keep_alive() (598-667) and the bot_status the loop derives from
\* its result (725-730), as one step.  refresh is what step 1
\* does ("skip", "ok" or "raise"), check1 and check2 are the results of
\* check_connection_status at lines 617 and 636; inject_ai_script,
\* click_connect_button and run_all_cells change none of these fields.
KeepAlive(t) ==
    /\ kpc[t] = "keepalive"
    /\ total_cycles < MaxCycles
    /\ total_cycles' = total_cycles + 1
    /\ \E refresh \in {"skip", "ok", "raise"}, check1 \in BOOLEAN, check2 \in BOOLEAN :
          LET raised == refresh = "raise"
              ok == CycleSucceeds(raised, check2)
              attempts == IF ~raised /\ ~check1 THEN reconnection_attempts + 1
                          ELSE reconnection_attempts
          IN  /\ keeper_failures > 0 => refresh # "skip"
              /\ keeper_driver \notin keeper_live =>
                     (refresh # "ok" /\ ~check1 /\ ~check2)
              /\ raised => (~check1 /\ ~check2)
              /\ is_connected' = IF raised THEN is_connected ELSE check2
              /\ reconnection_attempts' = attempts
              /\ successful_cycles' = IF ok THEN successful_cycles + 1
                                      ELSE successful_cycles
              /\ keeper_failures' = FailuresAfter(ok, raised, keeper_failures)
              /\ dashboard' =
                    [total_cycles |-> total_cycles + 1,
                     reconnections |-> IF attempts # reconnection_attempts
                                       THEN attempts ELSE dashboard.reconnections,
                     success_rate |-> IF ok
                                      THEN SuccessRate(successful_cycles + 1, total_cycles + 1)
                                      ELSE dashboard.success_rate,
                     bot_status |-> IF ok THEN "active" ELSE "reconnecting"]
              /\ last_cycle' = [ret |-> ok,
                                check |-> IF raised THEN "none"
                                          ELSE IF check2 THEN "connected"
                                          ELSE "disconnected",
                                raised |-> raised]
    /\ KGoto(t, "sleep")
    /\ UNCHANGED <<is_running, browser_healthy, keeper_driver, keeper_live,
                   keeper_created, stop_pc>>
    /\ UNCHANGED keeper_navigated
    /\ NotKeeper

\* time.sleep(wait_time) (737) and time.sleep(30) (718): not interruptible.
KeeperSleep(t) ==
    /\ kpc[t] = "sleep"
    /\ KGoto(t, "top")
    /\ UNCHANGED <<is_running, browser_healthy, keeper_driver, keeper_live,
                   keeper_created, is_connected, total_cycles,
                   successful_cycles, keeper_failures, stop_pc>>
    /\ UNCHANGED <<keeper_navigated, reconnection_attempts, dashboard, last_cycle>>
    /\ NotKeeper

\* /api/force-reconnect (1464-1473): writes the bot_status of the dashboard
\* and answers; it calls nothing on the bot and wakes no thread.
force_reconnect ==
    /\ SetBotStatus("force_reconnecting")
    /\ UNCHANGED <<is_running, browser_healthy, keeper_driver, keeper_live,
                   keeper_created, is_connected, total_cycles,
                   successful_cycles, keeper_failures, kpc, stop_pc>>
    /\ UNCHANGED <<keeper_navigated, reconnection_attempts, last_cycle>>
    /\ NotKeeper

keeper_loop(t) ==
    \/ SetupSkip(t)
    \/ SetupOk(t)
    \/ SetupFail(t)
    \/ Navigate(t)
    \/ KeeperTop(t)
    \/ MonitorHealthy(t)
    \/ MonitorRecover(t)
    \/ MonitorFail(t)
    \/ KeepAlive(t)
    \/ KeeperSleep(t)

KeeperNext ==
    \/ KeeperStart
    \/ KeeperStopRequest
    \/ KeeperStopQuit
    \/ force_reconnect
    \/ \E t \in LoopIds : keeper_loop(t)

SpecKeeper == Init /\ [][KeeperNext]_vars

\* ======================================================= Part II, claims
\* Thread t is executing a cycle: it is inside monitor_and_recover or
\* perform_keep_alive.
InCycle(t) == kpc[t] \in {"monitor", "keepalive"}

\* C5 as stated: at most one loop thread is executing cycles on the bot.
C5_SingleLoop == Cardinality({t \in LoopIds : InCycle(t)}) <= 1

\* A keep-alive cycle (perform_keep_alive) runs on the driver of self.driver.
KeepAliveStep == total_cycles' = total_cycles + 1

\* C19 as stated: a session handle that replaced a discarded one has been
\* navigated to the target URL before a keep-alive cycle runs on it: every
\* keep-alive cycle on an open browser finds it at the Colab URL.
C19_Step ==
    (KeepAliveStep /\ keeper_driver \in keeper_live) => keeper_driver \in keeper_navigated

C19_NavigatedBeforeKeepAlive == [][C19_Step]_vars

\* C24: perform_keep_alive counts a cycle as successful (successful_cycles
\* incremented, consecutive_failures reset to 0, True returned) only if the
\* connection check made after the recovery actions reported connected; a
\* cycle that merely raised nothing is counted as failed.
C24_Step ==
    KeepAliveStep =>
        /\ last_cycle'.ret <=> successful_cycles' = successful_cycles + 1
        /\ ~last_cycle'.ret => successful_cycles' = successful_cycles
        /\ last_cycle'.ret => (keeper_failures' = 0 /\ last_cycle'.check = "connected")
        /\ last_cycle'.check # "connected" => keeper_failures' = keeper_failures + 1

C24_SuccessNeedsCheck == [][C24_Step]_vars

\* After a counted success, a cycle whose actions raised nothing but whose
\* final check reported disconnected was counted as failed.
C24_Witness ==
    /\ successful_cycles >= 1
    /\ total_cycles > successful_cycles
    /\ ~last_cycle.ret /\ ~last_cycle.raised
    /\ last_cycle.check = "disconnected"
    /\ keeper_failures = 1

\* C30 as stated: after every keep-alive cycle the dashboard agrees with
\* the counters: total_cycles, reconnections, and success_rate =
\* successful_cycles / total_cycles, also after a failed cycle.
C30_DashboardConsistent ==
    total_cycles > 0 =>
        /\ dashboard.total_cycles = total_cycles
        /\ dashboard.reconnections = reconnection_attempts
        /\ dashboard.success_rate = SuccessRate(successful_cycles, total_cycles)

\* The sleep of a cycle (737) or of a failed recovery (718) runs to its
\* scheduled end in thread t.
SleepEnds(t) == kpc[t] = "sleep" /\ kpc'[t] = "top"

\* C31 as stated: after /api/force-reconnect is handled, a reconnect attempt
\* or keep-alive cycle runs before the next regularly scheduled check: no
\* loop thread sleeps to the scheduled end of its wait while the request is
\* the last thing written to bot_status, that is, with no cycle run since.
C31_Step ==
    \A t \in LoopIds :
        SleepEnds(t) => dashboard.bot_status # "force_reconnecting"

C31_ForceReconnectImmediate == [][C31_Step]_vars

\* C36: consecutive_failures always equals the number of failed keep-alive
\* cycles since the most recent successful one: a successful cycle resets it
\* to 0, every failed cycle, also one that ends in the exception handler,
\* adds exactly 1, and nothing else writes it.
C36_Step ==
    IF KeepAliveStep
    THEN keeper_failures' = IF last_cycle'.ret THEN 0 ELSE keeper_failures + 1
    ELSE keeper_failures' = keeper_failures

NoLoopAlive ==
    /\ \A t \in LoopIds : kpc[t] \in {"unborn", "exited"}
    /\ stop_pc = "idle"

\* C34 as stated: whenever no loop thread is alive for the bot, after a
\* stop() whose loop has exited or after the loop returned because the
\* initial browser setup or navigation failed, a subsequent start() returns
\* True and launches a loop: start() is not refused, is_running is clear.
C34_RestartAfterLoopEnd == NoLoopAlive => ~is_running

\* ======================================================================
\* Part III: AIColabSupremeBot
\* ======================================================================
NotSupreme == UNCHANGED <<survivalVars, keeperVars, engineVars, botVars, stopVars, sleepVars, waitVars, asyncVars, callVars>>

updates == Len(recommended)

\* What analysis.get('primary_strategy') is let to be: the heaviest and a
\* lightest registered strategy, the CV strategy (registered only with
\* ENABLE_CV), and a StrategyType that load_strategies never registers.
Primaries == {"multi_layer", "cv_button_detection", "emergency_restart",
              "tab_management"}

\* ------------------------------------------ SpecWeights: weight updates
WeightsInit ==
    /\ SurvivalInit /\ KeeperInit /\ EngineInit(TRUE, TRUE, TRUE) /\ BotInit /\ StopInit /\ SleepInit /\ WaitInit /\ AsyncInit /\ CallInit
    /\ \E enable_cv \in BOOLEAN : SupremeInit(load_strategies(enable_cv), MaxTabs)

\* One call of update_strategies_from_ai (922-931).
UpdateStrategies ==
    \E primary \in Primaries :
        /\ updates < MaxUpdates
        /\ strategies' = update_strategies_from_ai(strategies, primary)
        /\ recommended' = Append(recommended, primary)
        /\ UNCHANGED <<tabs, total_actions, successful_actions,
                       strategy_history, in_cycle, rand, chosen>>
        /\ NotSupreme

WeightsNext == UpdateStrategies

SpecWeights == WeightsInit /\ [][WeightsNext]_vars

\* ------------------------------------------------- SpecMain: main_loop
MainInit ==
    /\ SurvivalInit /\ KeeperInit /\ EngineInit(TRUE, TRUE, TRUE) /\ BotInit /\ StopInit /\ SleepInit /\ WaitInit /\ AsyncInit /\ CallInit
    /\ \E enable_cv \in BOOLEAN, n \in 1 .. MaxTabs :
           SupremeInit(load_strategies(enable_cv), n)

\* main_loop 951-977: one pass of "for driver in self.drivers": choose a
\* strategy, run it, count the result and record it.  The weights are not
\* touched.
ExecuteOnDriver(r2, success) ==
    /\ in_cycle < tabs
    /\ rand' = r2
    /\ chosen' = choose_strategy(strategies, r2)
    /\ chosen' # 0
    /\ total_actions' = total_actions + 1
    /\ successful_actions' = successful_actions + (IF success THEN 1 ELSE 0)
    /\ strategy_history' = Append(strategy_history,
           [strategy |-> strategies[chosen'].type, success |-> success])
    /\ in_cycle' = in_cycle + 1
    /\ UNCHANGED <<strategies, tabs, recommended>>
    /\ NotSupreme

MainLoopExecute ==
    \E r2 \in SampleDraws(strategies), success \in BOOLEAN :
        /\ total_actions < MaxActions
        /\ ExecuteOnDriver(r2, success)

\* Lines 979-981 keeping the oldest records instead of the newest.
TrimHistoryOldest(h) ==
    IF Len(h) > HistoryLimit THEN SubSeq(h, 1, HistoryKeep) ELSE h

\* Lines 979-981: "if len(self.strategy_history) > 1000:
\* self.strategy_history = self.strategy_history[-500:]".
TrimHistory(h) ==
    IF Len(h) > HistoryLimit THEN SubSeq(h, Len(h) - HistoryKeep + 1, Len(h))
    ELSE h

\* main_loop 979-990: the drivers are done; trim the history and sleep.
MainLoopEndCycle ==
    /\ in_cycle = tabs
    /\ strategy_history' = TrimHistory(strategy_history)
    /\ in_cycle' = 0
    /\ UNCHANGED <<strategies, tabs, recommended, total_actions,
                   successful_actions, rand, chosen>>
    /\ NotSupreme

\* run_ai_decision_cycle (895-920), a task main_loop creates (946-947) and
\* that runs while main_loop awaits: analyze_context returns what
\* parse_ai_response or get_fallback_strategy builds, and both name
\* 'multi_layer' as the primary strategy (269, 282).
AIDecisionCycle ==
    /\ updates < MaxDecisions
    /\ strategies' = update_strategies_from_ai(strategies, "multi_layer")
    /\ recommended' = Append(recommended, "multi_layer")
    /\ UNCHANGED <<tabs, total_actions, successful_actions, strategy_history,
                   in_cycle, rand, chosen>>
    /\ NotSupreme

MainNext == MainLoopExecute \/ MainLoopEndCycle \/ AIDecisionCycle

SpecMain == MainInit /\ [][MainNext]_vars

\* ------------------------------------- SpecHistory: the history limit
\* main_loop after HistoryStart actions, none of them trimmed away yet:
\* record i names strategy i (mod the table) and succeeded for even i.
HistoryStart == HistoryLimit - 1

HistoryInit ==
    /\ SurvivalInit /\ KeeperInit /\ EngineInit(TRUE, TRUE, TRUE) /\ BotInit /\ StopInit /\ SleepInit /\ WaitInit /\ AsyncInit /\ CallInit
    /\ \E enable_cv \in BOOLEAN, n \in 1 .. MaxTabs :
          LET strats == load_strategies(enable_cv)
          IN  /\ strategies = strats
              /\ tabs = n
              /\ recommended = <<>>
              /\ total_actions = HistoryStart
              /\ successful_actions = HistoryStart \div 2
              /\ strategy_history =
                    [i \in 1 .. HistoryStart |->
                        [strategy |-> strats[(i % Len(strats)) + 1].type,
                         success |-> i % 2 = 0]]
              /\ in_cycle = 0
              /\ rand = 0
              /\ chosen = 0

HistoryExecute ==
    \E r2 \in SampleDraws(strategies), success \in BOOLEAN :
        /\ total_actions < HistoryStart + MaxActions
        /\ ExecuteOnDriver(r2, success)

HistoryNext == HistoryExecute \/ MainLoopEndCycle

SpecHistory == HistoryInit /\ [][HistoryNext]_vars

\* The cycle of main_loop ends: the history is trimmed.
EndCycleStep == in_cycle = tabs /\ in_cycle' = 0

\* C28: at the end of every main-loop cycle the history holds at most 1000
\* records: a history that has grown past 1000 is cut to its 500 most
\* recent records in their order, a shorter one is left as it is.
C28_Step ==
    EndCycleStep =>
        LET h == strategy_history
            n == Len(strategy_history)
        IN  /\ Len(strategy_history') <= HistoryLimit
            /\ n > HistoryLimit =>
                  /\ Len(strategy_history') = HistoryKeep
                  /\ \A i \in 1 .. HistoryKeep :
                        strategy_history'[i] = h[n - HistoryKeep + i]
            /\ n <= HistoryLimit => strategy_history' = h

C28_HistoryBounded == [][C28_Step]_vars

\* A cycle has ended with a cut: the history holds the 500 newest records
\* of the 1001 there were.
C28_Witness ==
    /\ in_cycle = 0
    /\ Len(strategy_history) = HistoryKeep
    /\ total_actions = HistoryLimit + 1

\* ------------------------------------------- SpecChoose: choose_strategy
\* Strategy tables of ChooseLen strategies with weights of 1 .. MaxWeight
\* units, in registration order.
ChooseTables ==
    {[i \in 1 .. ChooseLen |-> [type |-> StrategyTypes[i], weight |-> w[i]]] :
        w \in [1 .. ChooseLen -> 1 .. MaxWeight]}

ChooseInit ==
    /\ SurvivalInit /\ KeeperInit /\ EngineInit(TRUE, TRUE, TRUE) /\ BotInit /\ StopInit /\ SleepInit /\ WaitInit /\ AsyncInit /\ CallInit
    /\ \E strats \in ChooseTables : SupremeInit(strats, MaxTabs)

\* One call of choose_strategy (996-1014) with any draw of line 1007.
Choose ==
    \E r2 \in AllDraws(strategies) :
        /\ rand' = r2
        /\ chosen' = choose_strategy(strategies, r2)
        /\ UNCHANGED <<strategies, tabs, recommended, total_actions,
                       successful_actions, strategy_history, in_cycle>>
        /\ NotSupreme

ChooseNext == Choose

SpecChoose == ChooseInit /\ [][ChooseNext]_vars

\* ----------------------------------------------------- claims of Part III
Weight(strats, t) ==
    LET i == CHOOSE j \in 1 .. Len(strats) : strats[j].type = t
    IN  strats[i].weight

Registered(strats) == {strats[i].type : i \in 1 .. Len(strats)}

\* The weight load_strategies gives type t, in units.
InitialWeight(t) == Weight(load_strategies(TRUE), t)

NeverRecommended(recs, t) == \A k \in 1 .. Len(recs) : recs[k] # t
AlwaysRecommended(recs, t) == \A k \in 1 .. Len(recs) : recs[k] = t

\* A weight rounded to four decimals, in units of 0.0001: w / Scale is
\* 4 * w / 5^(MaxUpdates - 3) ten-thousandths, and the divisor is odd.
Round4(w) ==
    LET d == Pow(5, MaxUpdates - 3) IN (4 * w + (d \div 2)) \div d

\* The weights the design lists for five decreases from 0.3.
ListedDecreases == <<2400, 1920, 1536, 1229, 983>>

\* C7: after any sequence of calls of update_strategies_from_ai, with any
\* recommended primary strategy, the weight of every registered strategy
\* lies in [wMin, wMax] = [0.05, 0.5].
C7_WeightsInRange ==
    \A i \in 1 .. Len(strategies) :
        /\ strategies[i].weight >= WMin
        /\ strategies[i].weight <= WMax

\* The cap and the floor have both acted: multi_layer was recommended on
\* every update (0.3 * 1.2^3 > 0.5) and sits at wMax, while a strategy that
\* started at 0.15 sits at wMin.
C7_Witness ==
    /\ updates >= 3
    /\ AlwaysRecommended(recommended, "multi_layer")
    /\ Weight(strategies, "multi_layer") = WMax
    /\ Weight(strategies, "dom_analysis") = WMin

\* C9: every update multiplies the weight of a strategy that is not the
\* primary by exactly 0.8, or sets it to wMin when the product would be
\* below wMin, and never raises it; it multiplies the weight of the primary
\* by exactly 1.2, or sets it to wMax when the product would be above
\* wMax, and never lowers it.  So a strategy decreased on each of n updates
\* has weight max(w0 * 0.8^n, wMin), which from 0.3 reads .24, .192,
\* .1536, .1229, .0983 to four decimals and is 0.05 from the ninth update
\* on, and a strategy increased on each of n updates has weight
\* min(w0 * 1.2^n, wMax).
C9_Step ==
    updates' = updates + 1 =>
        LET n == updates'
            primary == recommended'[n]
        IN  \A i \in 1 .. Len(strategies) :
                LET t  == strategies[i].type
                    w  == strategies[i].weight
                    w2 == strategies'[i].weight
                    w0 == InitialWeight(t)
                IN  /\ strategies'[i].type = t
                    /\ t # primary =>
                          /\ IF 4 * w < 5 * WMin THEN w2 = WMin ELSE 5 * w2 = 4 * w
                          /\ w2 <= w
                          /\ w > WMin => w2 < w
                    /\ t = primary =>
                          /\ IF 6 * w > 5 * WMax THEN w2 = WMax ELSE 5 * w2 = 6 * w
                          /\ w2 >= w
                          /\ w < WMax => w2 > w
                    /\ NeverRecommended(recommended', t) =>
                          /\ w2 = Max((w0 \div Pow(5, n)) * Pow(4, n), WMin)
                          /\ (t = "multi_layer" /\ n <= 5) =>
                                Round4(w2) = ListedDecreases[n]
                          /\ (t = "multi_layer" /\ n >= 9) => w2 = WMin
                    /\ AlwaysRecommended(recommended', t) =>
                          w2 = Min((w0 \div Pow(5, n)) * Pow(6, n), WMax)

C9_GeometricClamped == [][C9_Step]_vars

\* multi_layer was decreased on each of nine updates and has reached wMin,
\* and the CV strategy was increased on each of them and has reached wMax.
C9_Witness ==
    /\ updates >= 9
    /\ NeverRecommended(recommended, "multi_layer")
    /\ Weight(strategies, "multi_layer") = WMin
    /\ "cv_button_detection" \in Registered(strategies)
    /\ AlwaysRecommended(recommended, "cv_button_detection")
    /\ Weight(strategies, "cv_button_detection") = WMax

\* C8: every strategy execution of main_loop updates the weight of the
\* executed strategy from its result: min(weight * 1.2, wMax) on success,
\* max(weight * 0.8, wMin) on failure.
C8_Step ==
    total_actions' = total_actions + 1 =>
        strategies'[chosen'].weight =
            IF successful_actions' = successful_actions + 1
            THEN Increase(strategies[chosen'].weight)
            ELSE Decrease(strategies[chosen'].weight)

C8_WeightFollowsResult == [][C8_Step]_vars

\* C10: for every draw r in [0, sum of weights) choose_strategy returns the
\* first strategy in registration order whose cumulative weight is >= r,
\* and the draws that are mapped to strategy i have measure w_i: of the
\* unit intervals (k, k+1) that make up [0, sum), exactly w_i are mapped
\* to strategy i.
C10_ChooseProportional ==
    chosen # 0 =>
        /\ chosen \in 1 .. Len(strategies)
        /\ 2 * Cum(strategies, chosen) >= rand
        /\ \A j \in 1 .. chosen - 1 : 2 * Cum(strategies, j) < rand
        /\ \A i \in 1 .. Len(strategies) :
              Cardinality({k \in 0 .. TotalWeight(strategies) - 1 :
                              choose_strategy(strategies, 2 * k + 1) = i})
                  = strategies[i].weight

\* A draw that hits the cumulative weight of the second strategy exactly
\* was given to the second strategy, in a table of unequal weights.
C10_Witness ==
    /\ chosen = 2
    /\ rand = 2 * Cum(strategies, 2)
    /\ strategies[1].weight # strategies[2].weight
    /\ strategies[2].weight # strategies[3].weight

\* ======================================================================
\* Part IV: StrategyEngine and main_loop of ai_colab_supreme_final.py
\* ======================================================================
NotEngine == UNCHANGED <<survivalVars, keeperVars, supremeVars, botVars, stopVars, sleepVars, waitVars, asyncVars, callVars>>

SpecEngineInit ==
    /\ SurvivalInit /\ KeeperInit /\ BotInit /\ StopInit /\ SleepInit /\ WaitInit /\ AsyncInit /\ CallInit
    /\ SupremeInit(load_strategies(TRUE), MaxTabs)
    /\ \E enabled \in BOOLEAN, engine \in BOOLEAN, enable_cv \in BOOLEAN :
           \* AIModule.__init__ calls initialize, which alone sets
           \* ai_engine, only when is_enabled (253-254).
           /\ engine => enabled
           /\ EngineInit(enabled, engine, enable_cv)

\* main_loop (1405-1408): build the context and call choose_strategy.
\* main_loop is a coroutine, so the call is made inside the running event
\* loop.
EngineChoose ==
    /\ engine_pc = "choose"
    /\ engine_actions < MaxEngineActions
    /\ \E p \in Pages, reply \in AdvisorReplies,
          r2 \in EngineDraws(engine_strategies, success_counts, failure_counts) :
          /\ page' = p
          /\ advisor_reply' = reply
          /\ engine_rand' = r2
          /\ engine_chosen' =
                engine_choose_strategy(engine_strategies, success_counts,
                    failure_counts, ai_enabled, ai_engine, TRUE, reply, r2)
    /\ engine_pc' = "execute"
    /\ UNCHANGED <<engine_strategies, success_counts, failure_counts,
                   ai_enabled, ai_engine, engine_actions>>
    /\ NotEngine

\* main_loop (1409-1422): run the strategy, count the action and update
\* the strategy's statistics.
EngineExecute ==
    /\ engine_pc = "execute"
    /\ engine_chosen # 0
    /\ \E success \in BOOLEAN :
          LET id == engine_strategies[engine_chosen].id
          IN  /\ success_counts' = IF success THEN BumpCount(success_counts, id)
                                   ELSE success_counts
              /\ failure_counts' = IF success THEN failure_counts
                                   ELSE BumpCount(failure_counts, id)
    /\ engine_actions' = engine_actions + 1
    /\ engine_pc' = "choose"
    /\ UNCHANGED <<engine_strategies, ai_enabled, ai_engine, page,
                   advisor_reply, engine_rand, engine_chosen>>
    /\ NotEngine

EngineNext == EngineChoose \/ EngineExecute

SpecEngine == SpecEngineInit /\ [][EngineNext]_vars

\* ------------------------------------------------------ claims of Part IV
\* The strategy choose_strategy returned, once main_loop holds it.
Selected == engine_pc = "execute"

\* The advisor call of this cycle failed: asyncio.run raised, or the id it
\* delivered matches no registered strategy.
AdvisorFailed ==
    LET preferred ==
            asyncio_run(TRUE, analyze_and_decide(ai_enabled, ai_engine,
                                                 advisor_reply))
    IN  \/ preferred = "raise"
        \/ FindStrategy(engine_strategies, preferred) = 0

\* C11 as stated: when the page calls for a login, which is what the
\* Health Monitor is to report as LoginRequired, the Selector returns the
\* login-recovery strategy whatever the weights and counts are.
C11_LoginForced ==
    (Selected /\ page = "login") =>
        /\ engine_chosen # 0
        /\ engine_strategies[engine_chosen].id = "login_recovery"

\* C12: when the advisor is enabled and its call fails (it raises, times
\* out, or names no registered strategy), choose_strategy still returns a
\* registered strategy, the one weighted sampling gives for the draw: the
\* first in registration order whose cumulative adjusted weight is >= rand.
C12_AdvisorFailureIgnored ==
    (Selected /\ ai_enabled /\ AdvisorFailed) =>
        /\ engine_chosen \in 1 .. Len(engine_strategies)
        /\ engine_rand <= 2 * EngineCum(engine_strategies, success_counts,
                                        failure_counts, engine_chosen)
        /\ \A j \in 1 .. engine_chosen - 1 :
              engine_rand > 2 * EngineCum(engine_strategies, success_counts,
                                         failure_counts, j)

\* The advisor was enabled, had an engine, would have named an unknown
\* strategy, and the draw fell to a strategy other than the first, after
\* some strategy had been counted a success.
C12_Witness ==
    /\ Selected /\ ai_enabled /\ ai_engine
    /\ advisor_reply = "no_such_strategy"
    /\ engine_chosen > 1
    /\ \E id \in DOMAIN success_counts : success_counts[id] > 0

\* C13 as stated: with the advisor enabled and recommending a registered
\* strategy, choose_strategy returns exactly that strategy.
C13_AdvisorObeyed ==
    (/\ Selected /\ ai_enabled /\ ai_engine
     /\ FindStrategy(engine_strategies, advisor_reply) # 0) =>
        engine_chosen = FindStrategy(engine_strategies, advisor_reply)

\* ---------------------------------- SpecCounts: update_strategy_stats
\* The counts a long-running engine can hold for one strategy: none, or
\* at and just below the ceiling.
CountSamples == {0, CountLimit - 1, CountLimit}

CountsInit ==
    /\ SurvivalInit /\ KeeperInit /\ BotInit /\ StopInit /\ SleepInit /\ WaitInit /\ AsyncInit /\ CallInit
    /\ SupremeInit(load_strategies(TRUE), MaxTabs)
    /\ engine_strategies = engine_load_strategies(TRUE)
    /\ \E x \in 1 .. Len(EngineIds), a \in CountSamples, b \in CountSamples :
          /\ success_counts = [id \in {EngineIds[k] : k \in 1 .. Len(EngineIds)} |->
                                  IF id = EngineIds[x] THEN a ELSE 0]
          /\ failure_counts = [id \in {EngineIds[k] : k \in 1 .. Len(EngineIds)} |->
                                  IF id = EngineIds[x] THEN b ELSE 0]
    /\ ai_enabled = FALSE
    /\ ai_engine = FALSE
    /\ page = "connected"
    /\ advisor_reply = "raise"
    /\ engine_rand = 0
    /\ engine_chosen = 0
    /\ engine_pc = "execute"
    /\ engine_actions = 0

\* main_loop (1409-1422) for a strategy already chosen and run:
\* update_strategy_stats(strategy['id'], result.success).
StatsUpdate ==
    /\ engine_actions < MaxEngineActions
    /\ \E i \in 1 .. Len(engine_strategies), success \in BOOLEAN :
          LET after == update_strategy_stats(success_counts, failure_counts,
                                             engine_strategies[i].id, success)
          IN  /\ engine_chosen' = i
              /\ success_counts' = after.success_counts
              /\ failure_counts' = after.failure_counts
    /\ engine_actions' = engine_actions + 1
    /\ UNCHANGED <<engine_strategies, ai_enabled, ai_engine, page,
                   advisor_reply, engine_rand, engine_pc>>
    /\ NotEngine

CountsNext == StatsUpdate

SpecCounts == CountsInit /\ [][CountsNext]_vars

\* One table after a call for strategy id: only id's count may differ, by
\* the increment or by the cut to 500 of a count that exceeded 1000.
Bumped(old, new, id) ==
    /\ \A j \in DOMAIN old : j # id => new[j] = old[j]
    /\ new[id] = IF old[id] + 1 > CountLimit THEN CountKeep ELSE old[id] + 1

\* C29: after every update_strategy_stats call every success and failure
\* count lies in 0 .. 1000: the call adds 1 to exactly one count of the
\* given strategy (the success count for a success, the failure count for
\* a failure), sets a count that has exceeded 1000 to 500, and leaves all
\* other counts as they were.
C29_Step ==
    engine_actions' = engine_actions + 1 =>
        LET id == engine_strategies[engine_chosen'].id
        IN  /\ \A j \in DOMAIN success_counts' :
                  /\ success_counts'[j] \in 0 .. CountLimit
                  /\ failure_counts'[j] \in 0 .. CountLimit
            /\ \/ Bumped(success_counts, success_counts', id)
                   /\ failure_counts' = failure_counts
               \/ Bumped(failure_counts, failure_counts', id)
                   /\ success_counts' = success_counts

C29_CountsBounded == [][C29_Step]_vars

\* A success count that stood at the ceiling has been cut to 500 by the
\* next success.
C29_Witness ==
    /\ engine_actions >= 1
    /\ engine_chosen # 0
    /\ success_counts[engine_strategies[engine_chosen].id] = CountKeep

\* C25: every enabled strategy keeps a strictly positive selection weight:
\* in StrategyEngine the adjusted weight weight * (0.5 + 0.5 * success_rate)
\* of every registered strategy is positive whatever its counts are, so that
\* a draw can fall to it, and in ai_colab_supreme.py every weight stays
\* above 0 however often update_strategies_from_ai demotes it.
C25_PositiveWeights ==
    /\ \A i \in 1 .. Len(engine_strategies) :
          /\ AdjustedWeight(engine_strategies[i], success_counts, failure_counts) > 0
          /\ EngineCum(engine_strategies, success_counts, failure_counts, i)
                > EngineCum(engine_strategies, success_counts, failure_counts, i - 1)
    /\ \A i \in 1 .. Len(strategies) : strategies[i].weight > 0

\* The draw fell to a strategy that has only failures on its record.
C25_Witness ==
    /\ Selected /\ AdvisorFailed
    /\ engine_chosen > 1
    /\ failure_counts[engine_strategies[engine_chosen].id] >= 1
    /\ success_counts[engine_strategies[engine_chosen].id] = 0

\* ======================================================================
\* Part V: ColabBot (ai_colab_supreme_render.py) and the fallback chains
\* ======================================================================
NotBot == UNCHANGED <<survivalVars, keeperVars, supremeVars, engineVars, stopVars, sleepVars, waitVars, asyncVars, callVars>>

BotCounters == <<total_checks, successful_checks, failed_checks>>

\* start() (664-682): sets running and launches bot_loop.
BotStart ==
    /\ bot_pc = "none"
    /\ bot_running' = TRUE
    /\ bot_pc' = "init"
    /\ UNCHANGED <<bot_driver, bot_stop_pc, BotCounters, bot_connected,
                   clicked, chain, kchain, keeper_clicks>>
    /\ NotBot

\* bot_loop (590-609): create the driver, load Colab, inject the script.
\* Without a driver, or when loading raises, the loop is not entered.
BotLoopInit ==
    /\ bot_pc = "init"
    /\ \E ok \in BOOLEAN :
          /\ bot_driver' = ok
          /\ bot_pc' = IF ok THEN "top" ELSE "exited"
    /\ UNCHANGED <<bot_running, bot_stop_pc, BotCounters, bot_connected,
                   clicked, chain, kchain, keeper_clicks>>
    /\ NotBot

\* bot_loop: "while self.running" (612).
BotTop ==
    /\ bot_pc = "top"
    /\ bot_pc' = IF bot_running THEN "check" ELSE "cleanup"
    /\ clicked' = "unset"
    /\ UNCHANGED <<bot_running, bot_driver, bot_stop_pc, BotCounters,
                   bot_connected, chain, kchain, keeper_clicks>>
    /\ NotBot

\* run_check_cycle 539 with check_connection (505-531): a disconnect
\* phrase or an exception (always without a driver) gives False; a page
\* that only has the word "connect" gives what click_connect_button
\* returns; any other page gives True.
BotCheck ==
    /\ bot_pc = "check"
    /\ total_checks < MaxChecks
    /\ \E kind \in {"raise", "disconnect_phrase", "connect_word", "neither"},
          outcomes \in Outcomes(ChainOrder) :
          /\ ~bot_driver => kind = "raise"
          /\ kind # "connect_word" => outcomes = [i \in 1 .. Len(ChainOrder) |-> FALSE]
          /\ LET call == click_connect_button(bot_driver, outcomes)
             IN  /\ bot_connected' = CASE kind = "neither" -> TRUE
                                        [] kind = "connect_word" -> call.ret
                                        [] OTHER -> FALSE
                 /\ chain' = IF kind = "connect_word"
                             THEN CallRecord("check", bot_driver, outcomes, call)
                             ELSE chain
    /\ bot_pc' = IF bot_connected' THEN "inject" ELSE "click"
    /\ UNCHANGED <<bot_running, bot_driver, bot_stop_pc, BotCounters, clicked,
                   kchain, keeper_clicks>>
    /\ NotBot

\* run_check_cycle 541-549: not connected, so try the chain.
BotClick ==
    /\ bot_pc = "click"
    /\ \E outcomes \in Outcomes(ChainOrder) :
          LET call == click_connect_button(bot_driver, outcomes)
          IN  /\ clicked' = IF call.ret THEN "true" ELSE "false"
              /\ chain' = CallRecord("cycle", bot_driver, outcomes, call)
              /\ bot_pc' = IF call.ret THEN "inject" ELSE "refresh"
    /\ UNCHANGED <<bot_running, bot_driver, bot_stop_pc, BotCounters,
                   bot_connected, kchain, keeper_clicks>>
    /\ NotBot

\* run_check_cycle 553-556: driver.refresh() and time.sleep(5); a raise
\* (always without a driver) skips the second click.
BotRefresh ==
    /\ bot_pc = "refresh"
    /\ \E ok \in BOOLEAN :
          /\ ok => bot_driver
          /\ bot_pc' = IF ok THEN "click_again" ELSE "inject"
    /\ UNCHANGED <<bot_running, bot_driver, bot_stop_pc, BotCounters,
                   bot_connected, clicked, chain, kchain, keeper_clicks>>
    /\ NotBot

\* run_check_cycle 557: the chain once more; its result is dropped.
BotClickAgain ==
    /\ bot_pc = "click_again"
    /\ \E outcomes \in Outcomes(ChainOrder) :
          chain' = CallRecord("after_refresh", bot_driver, outcomes,
                              click_connect_button(bot_driver, outcomes))
    /\ bot_pc' = "inject"
    /\ UNCHANGED <<bot_running, bot_driver, bot_stop_pc, BotCounters,
                   bot_connected, clicked, kchain, keeper_clicks>>
    /\ NotBot

\* run_check_cycle 561-576: inject_keepalive_script, which catches its
\* own errors, then the metrics.
BotRecord ==
    /\ bot_pc = "inject"
    /\ total_checks' = total_checks + 1
    /\ IF CountsAsSuccess(bot_connected, clicked)
       THEN /\ successful_checks' = successful_checks + 1
            /\ UNCHANGED failed_checks
       ELSE /\ failed_checks' = failed_checks + 1
            /\ UNCHANGED successful_checks
    /\ bot_pc' = "sleep"
    /\ UNCHANGED <<bot_running, bot_driver, bot_stop_pc, bot_connected,
                   clicked, chain, kchain, keeper_clicks>>
    /\ NotBot

\* run_check_cycle 579-585: an exception raised in the try block outside
\* the helpers' own handlers (539-562) reaches "except Exception": the
\* handler adds 1 to failed_checks and returns False.
BotCycleError ==
    /\ bot_pc \in {"check", "click", "refresh", "click_again", "inject"}
    /\ failed_checks < MaxChecks
    /\ failed_checks' = failed_checks + 1
    /\ bot_pc' = "sleep"
    /\ UNCHANGED <<total_checks, successful_checks>>
    /\ UNCHANGED <<bot_running, bot_driver, bot_stop_pc, bot_connected,
                   clicked, chain, kchain, keeper_clicks>>
    /\ NotBot

\* bot_loop 616-640: the interval and the sleep in 10 s chunks.
BotSleep ==
    /\ bot_pc = "sleep"
    /\ bot_pc' = "top"
    /\ UNCHANGED <<bot_running, bot_driver, bot_stop_pc, BotCounters,
                   bot_connected, clicked, chain, kchain, keeper_clicks>>
    /\ NotBot

\* bot_loop 650-660: finally, quit the driver and forget it.
BotCleanup ==
    /\ bot_pc = "cleanup"
    /\ bot_driver' = FALSE
    /\ bot_pc' = "exited"
    /\ UNCHANGED <<bot_running, bot_stop_pc, BotCounters, bot_connected,
                   clicked, chain, kchain, keeper_clicks>>
    /\ NotBot

bot_loop ==
    \/ BotLoopInit
    \/ BotTop
    \/ BotCheck
    \/ BotClick
    \/ BotRefresh
    \/ BotClickAgain
    \/ BotRecord
    \/ BotCycleError
    \/ BotSleep
    \/ BotCleanup

\* stop() (684-701) in a request thread: clear running, ...
BotStopRequest ==
    /\ bot_stop_pc = "idle"
    /\ bot_running
    /\ bot_running' = FALSE
    /\ bot_stop_pc' = "join"
    /\ UNCHANGED <<bot_driver, bot_pc, BotCounters, bot_connected, clicked,
                   chain, kchain, keeper_clicks>>
    /\ NotBot

\* ... join(timeout=30), which returns when the thread has ended or when
\* the 30 s are over, whatever the thread is doing, ...
BotStopJoin ==
    /\ bot_stop_pc = "join"
    /\ bot_stop_pc' = "quit"
    /\ UNCHANGED <<bot_running, bot_driver, bot_pc, BotCounters,
                   bot_connected, clicked, chain, kchain, keeper_clicks>>
    /\ NotBot

\* ... then quit the driver and set self.driver = None.
BotStopQuit ==
    /\ bot_stop_pc = "quit"
    /\ bot_driver' = FALSE
    /\ bot_stop_pc' = "done"
    /\ UNCHANGED <<bot_running, bot_pc, BotCounters, bot_connected, clicked,
                   chain, kchain, keeper_clicks>>
    /\ NotBot

bot_stop == BotStopRequest \/ BotStopJoin \/ BotStopQuit

\* UltimateColabKeeper.perform_keep_alive, line 623: the keeper's chain.
KeeperClickConnect ==
    /\ keeper_clicks < MaxKeeperClicks
    /\ keeper_clicks' = keeper_clicks + 1
    /\ \E outcomes \in Outcomes(KeeperChainOrder) :
          kchain' = CallRecord("keep_alive", TRUE, outcomes,
                               keeper_click_connect_button(outcomes))
    /\ UNCHANGED <<bot_running, bot_driver, bot_pc, bot_stop_pc, BotCounters,
                   bot_connected, clicked, chain>>
    /\ NotBot

BotNext == BotStart \/ bot_loop \/ bot_stop \/ KeeperClickConnect

SpecBot == Init /\ [][BotNext]_vars

\* ------------------------------------------------------- claims of Part V
\* The step of run_check_cycle that records the cycle.
RecordStep ==
    bot_pc = "inject" /\ bot_pc' = "sleep" /\ total_checks' = total_checks + 1

\* The cycle ends in the exception handler of run_check_cycle (579-585).
HandlerStep ==
    bot_pc' = "sleep" /\ bot_pc # "sleep" /\ total_checks' = total_checks

\* C14: a cycle whose page was classified as disconnected and whose chain
\* failed is recorded as failed exactly once: the recording step adds 1
\* to total_checks and to failed_checks and leaves successful_checks, and
\* no other step of the cycle touches the three counters.
C14_Step ==
    /\ (RecordStep /\ ~bot_connected /\ clicked = "false") =>
          /\ total_checks' = total_checks + 1
          /\ failed_checks' = failed_checks + 1
          /\ successful_checks' = successful_checks
    /\ ~(RecordStep \/ HandlerStep) => UNCHANGED BotCounters

WalksInOrder(c, order) ==
    c.site # "none" =>
        /\ Len(c.attempted) <= Len(order)
        /\ c.attempted = SubSeq(order, 1, Len(c.attempted))
        /\ c.ret => (c.first # 0 /\ Len(c.attempted) = c.first)

\* C16: both click_connect_button chains are walked in the listed order
\* and stop with True at the first success; False is returned only after
\* every strategy has been run exactly once, or, in ColabBot, at once and
\* with no strategy run when the bot has no driver.
C16_ChainInOrder ==
    /\ WalksInOrder(chain, ChainOrder)
    /\ WalksInOrder(kchain, KeeperChainOrder)
    /\ (chain.site # "none" /\ ~chain.ret) =>
          IF chain.driver THEN chain.attempted = ChainOrder /\ chain.first = 0
          ELSE chain.attempted = <<>>
    /\ (kchain.site # "none" /\ ~kchain.ret) =>
          kchain.attempted = KeeperChainOrder /\ kchain.first = 0

\* ColabBot's chain failed after all six strategies, and the keeper's
\* chain returned True at its second strategy although a later one would
\* have succeeded too.
C16_Witness ==
    /\ chain.site # "none" /\ chain.driver /\ ~chain.ret
    /\ chain.attempted = ChainOrder
    /\ kchain.site # "none" /\ kchain.ret
    /\ kchain.attempted = SubSeq(KeeperChainOrder, 1, 2)

\* C16 as stated: False is returned only after every strategy of the
\* chain has been attempted exactly once.
C16_Original ==
    /\ WalksInOrder(chain, ChainOrder)
    /\ WalksInOrder(kchain, KeeperChainOrder)
    /\ (chain.site # "none" /\ ~chain.ret) => chain.attempted = ChainOrder
    /\ (kchain.site # "none" /\ ~kchain.ret) =>
          kchain.attempted = KeeperChainOrder

\* What a chain sleeps between its attempts: the loops "for strategy in
\* strategies: if strategy(): return True" (render 310-312, keeper 422-424)
\* go from a failed strategy straight to the next one; waits[i] is the
\* sleep, in seconds, between attempt i and attempt i + 1.
ChainWaits(attempted) == [i \in 1 .. (Len(attempted) - 1) |-> 0]

\* C23 as stated: between successive failed attempts the chain waits
\* backoff(attempt) = min(baseDelay * attempt, maxDelay), a delay (positive,
\* baseDelay being one) that does not decrease with the attempt number.
C23_BackoffBetweenAttempts ==
    \A c \in {chain, kchain} :
        LET waits == ChainWaits(c.attempted)
        IN  \A i \in DOMAIN waits :
                /\ waits[i] > 0
                /\ i > 1 => waits[i - 1] <= waits[i]

\* check_connection (502-531) returns to run_check_cycle.
CheckConnectionStep == bot_pc = "check" /\ bot_pc' \in {"inject", "click"}

\* C21 as stated: check_connection only reads from the driver: it runs no
\* click strategy (no click, no key, no script) and leaves the metrics and
\* the state of the bot unchanged.
C21_Step ==
    CheckConnectionStep =>
        /\ chain' = chain
        /\ UNCHANGED <<BotCounters, bot_driver, bot_running>>

C21_CheckReadOnly == [][C21_Step]_vars

\* C37 as stated: total_checks = successful_checks + failed_checks holds
\* after every run_check_cycle, also after one that ends in the exception
\* handler, so that the success rate successful_checks / max(total_checks,
\* 1) lies within [0, 100] percent.  The counters change only in the step
\* that ends a cycle, so every state is a state after a cycle.
C37_ChecksAddUp ==
    /\ total_checks = successful_checks + failed_checks
    /\ successful_checks <= total_checks

\* ------------------------------------------- further claims of Part I
\* The survival loop takes the result of check_colab_status.
CheckStep == pc[LOOP] = "check" /\ pc'[LOOP] # "check"

\* C15 as stated: after a cycle whose status was not 'connected', the
\* sleep before the next cycle has base wait 60 s or 90 s, never 120 s.
C15_FailedCycleShortWait ==
    (pc[LOOP] = "sleep" /\ status # "connected") => wait \in {60, 90}

\* C26: in a cycle whose status is connected the loop runs aggressive_click
\* exactly when the cycle number is a multiple of 3; in a cycle whose
\* status is disconnected it runs aggressive_click in that cycle; with any
\* other status it runs none, and it runs it nowhere else in the cycle.
C26_Step ==
    /\ CheckStep =>
          /\ status' = "connected" =>
                (pc'[LOOP] = "click" <=> cycle % ActivityEvery = 0)
          /\ status' = "disconnected" => pc'[LOOP] = "click"
          /\ status' \notin {"connected", "disconnected"} => pc'[LOOP] # "click"
          /\ cycle' = cycle
    /\ (pc'[LOOP] = "click" /\ pc[LOOP] # "click") => pc[LOOP] = "check"

C26_PreventativeEveryThird == [][C26_Step]_vars

\* The third cycle found the page connected and is running the
\* preventative click.
C26_Witness ==
    /\ pc[LOOP] = "click"
    /\ status = "connected"
    /\ cycle = ActivityEvery

\* C22 as stated: session_counter and new_sessions never decrease and are
\* always equal, and session_start changes only where a successful
\* create_new_session resets it (line 182), the session age growing
\* everywhere else.
C22_Step ==
    /\ session_counter' >= session_counter
    /\ new_sessions' >= new_sessions
    /\ new_sessions' = session_counter'
    /\ \/ session_age' >= session_age
       \/ session_age' = 0 /\ \E t \in Threads : pc[t] = "cns_start"

C22_CountersAgree == [][C22_Step]_vars

\* ======================================================================
\* Part VI: the stop signal of UltimateColabSurvival
\* ======================================================================
NotStop == UNCHANGED <<survivalVars, keeperVars, supremeVars, engineVars, botVars, sleepVars, waitVars, asyncVars, callVars>>

\* start() (506-517) behind POST /api/start: refused while running is set,
\* otherwise sets it and launches a new survival_loop thread.
SvStart ==
    /\ ~sv_running
    /\ \E t \in LoopIds :
          /\ sv_pc[t] = "unborn"
          /\ \A u \in LoopIds : u < t => sv_pc[u] # "unborn"
          /\ sv_pc' = [sv_pc EXCEPT ![t] = "init"]
    /\ sv_running' = TRUE
    /\ UNCHANGED <<sv_chunks, sv_seen, sv_live, sv_stop_pc>>
    /\ NotStop

\* survival_loop 408-411: the initial create_new_session; on failure the
\* thread returns.
SvInit(t) ==
    /\ sv_pc[t] = "init"
    /\ \E ok \in BOOLEAN :
          /\ sv_pc' = [sv_pc EXCEPT ![t] = IF ok THEN "top" ELSE "exited"]
          /\ sv_live' = IF ok THEN TRUE ELSE sv_live
    /\ UNCHANGED <<sv_running, sv_chunks, sv_seen, sv_stop_pc>>
    /\ NotStop

\* "while self.running" (416): the loop-iteration boundary.
SvTop(t) ==
    /\ sv_pc[t] = "top"
    /\ IF sv_running
       THEN /\ sv_pc' = [sv_pc EXCEPT ![t] = "cycle"]
            /\ sv_seen' = sv_seen
       ELSE /\ sv_pc' = [sv_pc EXCEPT ![t] = "cleanup"]
            /\ sv_seen' = [sv_seen EXCEPT ![t] = TRUE]
    /\ UNCHANGED <<sv_running, sv_chunks, sv_live, sv_stop_pc>>
    /\ NotStop

\* Lines 418-484: the cycle's actions (age check and rotation, status
\* check, click, keep-alive injection, refresh, hard reset) and the wait,
\* of int(wait / 10) chunks.
SvCycle(t) ==
    /\ sv_pc[t] = "cycle"
    /\ \E n \in 1 .. MaxChunks : sv_chunks' = [sv_chunks EXCEPT ![t] = n]
    /\ sv_pc' = [sv_pc EXCEPT ![t] = "sleep"]
    /\ UNCHANGED <<sv_running, sv_seen, sv_live, sv_stop_pc>>
    /\ NotStop

\* Lines 487-490: "for _ in range(...): if not self.running: break;
\* time.sleep(10)".
SvSleepChunk(t) ==
    /\ sv_pc[t] = "sleep"
    /\ IF sv_chunks[t] = 0
       THEN /\ sv_pc' = [sv_pc EXCEPT ![t] = "top"]
            /\ UNCHANGED <<sv_chunks, sv_seen>>
       ELSE IF ~sv_running
       THEN /\ sv_pc' = [sv_pc EXCEPT ![t] = "top"]
            /\ sv_seen' = [sv_seen EXCEPT ![t] = TRUE]
            /\ sv_chunks' = [sv_chunks EXCEPT ![t] = 0]
       ELSE /\ sv_chunks' = [sv_chunks EXCEPT ![t] = @ - 1]
            /\ UNCHANGED <<sv_pc, sv_seen>>
    /\ UNCHANGED <<sv_running, sv_live, sv_stop_pc>>
    /\ NotStop

\* Lines 498-504: the loop has ended; quit the driver.
SvCleanup(t) ==
    /\ sv_pc[t] = "cleanup"
    /\ sv_live' = FALSE
    /\ sv_pc' = [sv_pc EXCEPT ![t] = "exited"]
    /\ UNCHANGED <<sv_running, sv_chunks, sv_seen, sv_stop_pc>>
    /\ NotStop

\* stop() (519-534) behind POST /api/stop: clear running, join for at most
\* 30 s, quit the driver.
SvStopRequest ==
    /\ sv_stop_pc = "idle"
    /\ sv_running' = FALSE
    /\ sv_stop_pc' = "join"
    /\ UNCHANGED <<sv_pc, sv_chunks, sv_seen, sv_live>>
    /\ NotStop

SvStopJoin ==
    /\ sv_stop_pc = "join"
    /\ sv_stop_pc' = "quit"
    /\ UNCHANGED <<sv_running, sv_pc, sv_chunks, sv_seen, sv_live>>
    /\ NotStop

SvStopQuit ==
    /\ sv_stop_pc = "quit"
    /\ sv_live' = FALSE
    /\ sv_stop_pc' = "idle"
    /\ UNCHANGED <<sv_running, sv_pc, sv_chunks, sv_seen>>
    /\ NotStop

StopNext ==
    \/ SvStart
    \/ SvStopRequest
    \/ SvStopJoin
    \/ SvStopQuit
    \/ \E t \in LoopIds :
          \/ SvInit(t)
          \/ SvTop(t)
          \/ SvCycle(t)
          \/ SvSleepChunk(t)
          \/ SvCleanup(t)

SpecStop == Init /\ [][StopNext]_vars

\* C17 as stated: a loop thread that has observed running = False, at the
\* loop-iteration boundary or between two chunks of the sleep, performs no
\* further cycle action: it is at the boundary, in the cleanup, or ended.
C17_NoActionAfterStop ==
    \A t \in LoopIds : sv_seen[t] => sv_pc[t] \in {"top", "cleanup", "exited"}

\* ======================================================================
\* Part VII: calculate_sleep_time
\* ======================================================================
\* Sleep times are in tenths of a second, so that base * 1.2, base * 0.8
\* and base * 0.5 are integers.  A success rate s / n is compared with
\* 0.9, 0.7 and 0.5 exactly (10 * s > 9 * n, ...): for the small s and n
\* here the float quotient is above the float constant exactly when the
\* rational is.
NotSleep == UNCHANGED <<survivalVars, keeperVars, supremeVars, engineVars, botVars, stopVars, waitVars, asyncVars, callVars>>

\* The results of a cycle: a list of StrategyResult, of which only
\* .success is read; the successes are listed first.
ResultLists ==
    UNION { { [i \in 1 .. n |-> i <= k] : k \in 0 .. n } : n \in 0 .. MaxResults }

\* sum(1 for r in results if r.success) (ai_colab_supreme.py 1021).
RECURSIVE CountSuccess(_)
CountSuccess(results) ==
    IF results = <<>> THEN 0
    ELSE (IF Head(results) THEN 1 ELSE 0) + CountSuccess(Tail(results))

\* ai_colab_supreme.py 1016-1031, with the good and the bad interval
\* exchanged.
calculate_sleep_time_swapped(results) ==
    LET s == CountSuccess(results)
        n == Len(results)
    IN  IF n = 0 THEN 1500
        ELSE IF 10 * s > 9 * n THEN 600
        ELSE IF 10 * s > 7 * n THEN 1500
        ELSE IF 10 * s > 5 * n THEN 1200
        ELSE 1800

\* AIColabSupremeBot.calculate_sleep_time of ai_colab_supreme.py
\* (1016-1031).
calculate_sleep_time(results) ==
    LET s == CountSuccess(results)
        n == Len(results)
    IN  IF n = 0 THEN 1500
        ELSE IF 10 * s > 9 * n THEN 1800
        ELSE IF 10 * s > 7 * n THEN 1500
        ELSE IF 10 * s > 5 * n THEN 1200
        ELSE 600

\* Config.get("CHECK_INTERVAL", 150) (final 1502): the default and another
\* setting of the environment, in seconds.
BaseIntervals == {150, 300}

\* AIColabSupremeBot.calculate_sleep_time of ai_colab_supreme_final.py
\* (1500-1517): the rate is 0.5 while no action has been counted.
final_calculate_sleep_time(base_interval, successful_actions_, total_actions_) ==
    LET s == IF total_actions_ > 0 THEN successful_actions_ ELSE 1
        n == IF total_actions_ > 0 THEN total_actions_ ELSE 2
    IN  IF 10 * s > 9 * n THEN base_interval * 12
        ELSE IF 10 * s > 7 * n THEN base_interval * 10
        ELSE IF 10 * s > 5 * n THEN base_interval * 8
        ELSE base_interval * 5

\* main_loop of ai_colab_supreme.py (984): the sleep after a cycle.
SleepSupreme ==
    /\ \E results \in ResultLists :
          sleep_cur' = [impl |-> "supreme", base |-> 150,
                        successes |-> CountSuccess(results),
                        total |-> Len(results),
                        sleep |-> calculate_sleep_time(results)]
    /\ sleep_prev' = sleep_cur
    /\ NotSleep

\* main_loop of ai_colab_supreme_final.py (1441): the sleep after a cycle.
SleepFinal ==
    /\ \E base \in BaseIntervals, n \in 0 .. MaxResults :
          \E s \in 0 .. n :
             sleep_cur' = [impl |-> "final", base |-> base,
                           successes |-> s, total |-> n,
                           sleep |-> final_calculate_sleep_time(base, s, n)]
    /\ sleep_prev' = sleep_cur
    /\ NotSleep

SleepNext == SleepSupreme \/ SleepFinal

SpecSleep == Init /\ [][SleepNext]_vars

\* The success rate of a call, as a fraction: final uses 0.5 while nothing
\* has been counted.
RateNum(c) == IF c.total > 0 THEN c.successes ELSE 1
RateDen(c) == IF c.total > 0 THEN c.total ELSE 2
HasRate(c) == c.impl = "final" \/ (c.impl = "supreme" /\ c.total > 0)
RateLeq(c, d) == RateNum(c) * RateDen(d) <= RateNum(d) * RateDen(c)
Shortest(c) == IF c.impl = "supreme" THEN 600 ELSE 5 * c.base
Longest(c) == IF c.impl = "supreme" THEN 1800 ELSE 12 * c.base

\* C18: the sleep interval is monotonically non-decreasing in the success
\* rate: of two calls of the same calculate_sleep_time (with the same
\* base) the one with the higher rate never sleeps shorter; rates of at
\* most 0.5 get the shortest interval (60 s, or 0.5 * base) and rates
\* above 0.9 the longest (180 s, or 1.2 * base).
C18_SleepMonotone ==
    /\ (/\ HasRate(sleep_prev) /\ HasRate(sleep_cur)
        /\ sleep_prev.impl = sleep_cur.impl
        /\ sleep_prev.base = sleep_cur.base
        /\ RateLeq(sleep_prev, sleep_cur))
       => sleep_prev.sleep <= sleep_cur.sleep
    /\ HasRate(sleep_cur) =>
          /\ 2 * RateNum(sleep_cur) <= RateDen(sleep_cur)
                => sleep_cur.sleep = Shortest(sleep_cur)
          /\ 10 * RateNum(sleep_cur) > 9 * RateDen(sleep_cur)
                => sleep_cur.sleep = Longest(sleep_cur)
          /\ Shortest(sleep_cur) <= sleep_cur.sleep
          /\ sleep_cur.sleep <= Longest(sleep_cur)

\* Two calls of either implementation, the first at rate 1/2 and the second
\* at rate 10/10, with a strictly longer sleep.
C18_Witness ==
    /\ sleep_prev.impl = "supreme" /\ sleep_prev.total = 2 /\ sleep_prev.successes = 1
    /\ sleep_cur.impl = "supreme" /\ sleep_cur.total = MaxResults
    /\ sleep_cur.successes = MaxResults
    /\ sleep_prev.sleep = 600 /\ sleep_cur.sleep = 1800

\* ======================================================================
\* Part I, check_colab_status
\* ======================================================================
\* C20: check_colab_status returns exactly one of no_driver, disconnected,
\* connected and error; when reading the page raises, as it does on a
\* browser that was quit, the result is error and the loop goes on.
C20_Step ==
    CheckStep =>
       /\ status' \in {"no_driver", "disconnected", "connected", "error"}
       /\ (driver # NoDriver /\ driver \notin live) => status' = "error"
       /\ driver = NoDriver <=> status' = "no_driver"
       /\ pc'[LOOP] \in {"click", "inject"}

C20_StatusTotal == [][C20_Step]_vars

\* The loop has taken "error" from a check on a browser that was quit.
C20_Witness ==
    /\ pc[LOOP] = "inject"
    /\ status = "error"
    /\ consecutive_failures > 0
    /\ driver # NoDriver
    /\ driver \notin live

\* ======================================================================
\* Part VIII: the wait at the end of a survival cycle
\* ======================================================================
\* The factor random.uniform(0.8, 1.2) is held in percent and the wait in
\* hundredths of a second, so that wait * factor is an integer.
NotWait == UNCHANGED <<survivalVars, keeperVars, supremeVars, engineVars, botVars, stopVars, sleepVars, asyncVars, callVars>>

\* random.uniform(0.8, 1.2) (481), in percent.
JitterFactors == 80 .. 120

\* Lines 481-482: wait = wait * factor; wait = max(45, min(wait, 300)).
JitteredWait(base, factor) == Max(4500, Min(base * factor, 30000))

\* The statuses of a cycle and the failure counts step 6 can see: the hard
\* reset of step 5 leaves a count below the limit.
WaitStatuses == {"no_driver", "disconnected", "connected", "error"}

\* survival_loop, step 6 (469-482) at the end of a cycle.
WaitCompute ==
    /\ \E st \in WaitStatuses, cf \in 0 .. (FailureLimit - 1), f \in JitterFactors :
          /\ st = "connected" => cf = 0
          /\ wait_call' = [status |-> st, failures |-> cf, factor |-> f,
                           base |-> BaseWait(st, cf),
                           wait |-> JitteredWait(BaseWait(st, cf), f)]
    /\ NotWait

WaitNext == WaitCompute

SpecWait == Init /\ [][WaitNext]_vars

\* C27: the wait of a cycle is base * f with base 60, 90 or 120 s and f
\* in [0.8, 1.2], and it lies within [45, 300] s.
C27_WaitInRange ==
    wait_call.status # "none" =>
        /\ wait_call.base \in {60, 90, 120}
        /\ wait_call.factor >= 80 /\ wait_call.factor <= 120
        /\ wait_call.wait = wait_call.base * wait_call.factor
        /\ wait_call.wait >= 4500 /\ wait_call.wait <= 30000

\* The shortest wait there is: a disconnected cycle with factor 0.8.
C27_Witness ==
    /\ wait_call.status = "disconnected"
    /\ wait_call.factor = 80
    /\ wait_call.wait = 4800

\* ======================================================================
\* Part IX: main_loop and health_monitor_loop on one event loop
NotAsync == UNCHANGED <<survivalVars, keeperVars, supremeVars, engineVars, botVars, stopVars, sleepVars, waitVars, callVars>>

Slots == 1 .. Len(fb_drivers)

\* asyncio runs one task at a time: a task runs when the loop is free or
\* when it already holds it, and gives it up only where it suspends.
CanRun(task) == fb_turn \in {"none", task}

\* time.sleep inside a strategy, taken as asyncio.sleep: the task suspends
\* and the event loop is free for the other task.
SleepInStrategyAwaited(task) == "none"

\* time.sleep inside a strategy (1019, 1041, 1170, 1214): the thread is
\* blocked, the task keeps the event loop.  No strategy function has an
\* await that suspends.
SleepInStrategy(task) == task

\* "await self.create_driver(...)" (657): create_driver (576-619) has no
\* await, so the awaiting task is not suspended.
AwaitCreateDriver(task) == task

\* get_healthy_driver (631-638): the first slot whose health flag is set,
\* 0 if there is none.
get_healthy_driver ==
    IF \E i \in Slots : fb_health[i]
    THEN CHOOSE i \in Slots : fb_health[i] /\ \A j \in Slots : fb_health[j] => i <= j
    ELSE 0

\* main_loop (1389-1410): one pass from the loop head to the strategy call.
\* Without a healthy driver it sleeps 30 s (1399-1402); otherwise the
\* strategy starts on the driver object read from the slot.
MainSelect ==
    /\ fb_main.pc = "ready"
    /\ CanRun("main")
    /\ fb_main.cycles < MaxAsyncCycles
    /\ LET i == get_healthy_driver
       IN  IF i = 0
           THEN /\ fb_main' = [fb_main EXCEPT !.cycles = @ + 1]
                /\ fb_turn' = "none"
           ELSE /\ fb_main' = [fb_main EXCEPT !.pc = "execute", !.idx = i,
                                              !.drv = fb_drivers[i]]
                /\ fb_turn' = SleepInStrategy("main")
    /\ UNCHANGED <<fb_drivers, fb_health, fb_live, fb_created, fb_mon>>
    /\ NotAsync

\* main_loop (1410-1448): the strategy returns, the statistics are updated
\* and the task suspends in "await asyncio.sleep(adjusted_sleep)".
MainFinish ==
    /\ fb_main.pc = "execute"
    /\ CanRun("main")
    /\ fb_main' = [pc |-> "ready", idx |-> 0, drv |-> NoDriver,
                   cycles |-> fb_main.cycles + 1]
    /\ fb_turn' = "none"
    /\ UNCHANGED <<fb_drivers, fb_health, fb_live, fb_created, fb_mon>>
    /\ NotAsync

\* BrowserManager.check_health (674-687): the slots whose browser does not
\* answer.
Unhealthy == {i \in Slots : fb_drivers[i] \notin fb_live}

\* AIColabSupremeBot.check_health (1330-1359): the health flags are
\* refreshed; resources tells whether memory or CPU is above its limit.
\* With an issue perform_recovery starts (AUTO_RECOVERY), otherwise the task
\* suspends in "await asyncio.sleep(HEALTH_CHECK_INTERVAL)".
MonCheck ==
    /\ fb_mon.pc = "ready"
    /\ CanRun("health")
    /\ fb_health' = [i \in Slots |-> i \notin Unhealthy]
    /\ \E resources \in BOOLEAN :
          LET is_healthy == ~resources /\
                            ~(Cardinality(Unhealthy) > Len(fb_drivers) \div 2)
          IN  IF is_healthy
              THEN /\ fb_mon' = fb_mon
                   /\ fb_turn' = "none"
              ELSE /\ fb_mon' = [fb_mon EXCEPT !.pc = "recover", !.todo = Unhealthy]
                   /\ fb_turn' = "health"
    /\ UNCHANGED <<fb_drivers, fb_live, fb_created, fb_main>>
    /\ NotAsync

\* perform_recovery (1371-1374) and recover_driver (649-654): the next
\* unhealthy slot, whose old driver is quit.
MonQuit ==
    /\ fb_mon.pc = "recover"
    /\ CanRun("health")
    /\ fb_mon.todo # {}
    /\ LET i == CHOOSE i \in fb_mon.todo : \A j \in fb_mon.todo : i <= j
       IN  /\ fb_live' = fb_live \ {fb_drivers[i]}
           /\ fb_mon' = [fb_mon EXCEPT !.pc = "create", !.idx = i]
    /\ fb_turn' = AwaitCreateDriver("health")
    /\ UNCHANGED <<fb_drivers, fb_health, fb_created, fb_main>>
    /\ NotAsync

\* recover_driver (656-668): create_driver gives a browser, which is
\* installed in the slot with its health flag set, or None.
MonCreate ==
    /\ fb_mon.pc = "create"
    /\ CanRun("health")
    /\ \E ok \in BOOLEAN :
          /\ ok => fb_created < MaxSlots + MaxRecovered
          /\ IF ok
             THEN /\ fb_drivers' = [fb_drivers EXCEPT ![fb_mon.idx] = fb_created + 1]
                  /\ fb_health' = [fb_health EXCEPT ![fb_mon.idx] = TRUE]
                  /\ fb_live' = fb_live \cup {fb_created + 1}
                  /\ fb_created' = fb_created + 1
             ELSE UNCHANGED <<fb_drivers, fb_health, fb_live, fb_created>>
    /\ fb_mon' = [pc |-> "recover", todo |-> fb_mon.todo \ {fb_mon.idx}, idx |-> 0]
    /\ fb_turn' = "health"
    /\ UNCHANGED fb_main
    /\ NotAsync

\* perform_recovery returns; health_monitor_loop suspends in
\* "await asyncio.sleep(HEALTH_CHECK_INTERVAL)" (1325).
MonDone ==
    /\ fb_mon.pc = "recover"
    /\ CanRun("health")
    /\ fb_mon.todo = {}
    /\ fb_mon' = [fb_mon EXCEPT !.pc = "ready"]
    /\ fb_turn' = "none"
    /\ UNCHANGED <<fb_drivers, fb_health, fb_live, fb_created, fb_main>>
    /\ NotAsync

\* A browser process dies; the bot is not told.
BrowserCrash ==
    /\ \E d \in fb_live : fb_live' = fb_live \ {d}
    /\ UNCHANGED <<fb_drivers, fb_health, fb_created, fb_turn, fb_main, fb_mon>>
    /\ NotAsync

SpecAsyncInit ==
    /\ SurvivalInit /\ KeeperInit
    /\ SupremeInit(load_strategies(TRUE), MaxTabs)
    /\ EngineInit(TRUE, TRUE, TRUE)
    /\ BotInit /\ StopInit /\ SleepInit /\ WaitInit /\ CallInit
    /\ \E n \in 1 .. MaxSlots : AsyncStart(n)

AsyncNext ==
    \/ MainSelect
    \/ MainFinish
    \/ MonCheck
    \/ MonQuit
    \/ MonCreate
    \/ MonDone
    \/ BrowserCrash

SpecAsync == SpecAsyncInit /\ [][AsyncNext]_vars

\* ------------------------------------------------------ Part IX, claims
\* recover_driver quits the old driver of slot i.
RecoverQuits(i) == fb_mon.pc = "recover" /\ fb_mon'.pc = "create" /\ fb_mon'.idx = i

\* recover_driver installs a new driver in slot i, or gives up on it.
RecoverReplaces(i) == fb_mon.pc = "create" /\ fb_mon'.pc = "recover" /\ fb_mon.idx = i

\* main_loop starts a strategy on the driver of slot i.
StrategyStarts(i) == fb_main.pc = "ready" /\ fb_main'.pc = "execute" /\ fb_main'.idx = i

\* C32: driver recovery by the health monitor never interleaves with a
\* strategy executing on the same driver: a strategy that main_loop started
\* on a driver completes before recover_driver quits or replaces that
\* driver, and no strategy starts on a driver in the middle of its
\* replacement.
C32_Step ==
    \A i \in 1 .. MaxSlots :
        /\ (RecoverQuits(i) \/ RecoverReplaces(i)) =>
               ~(fb_main.pc = "execute" /\ fb_main.idx = i)
        /\ StrategyStarts(i) => ~(fb_mon.pc = "create" /\ fb_mon.idx = i)

C32_RecoveryExclusive == [][C32_Step]_vars

\* A strategy is executing on a driver that recover_driver installed, while
\* the other slot still holds a driver that died and awaits recovery.
C32_Witness ==
    /\ fb_main.pc = "execute"
    /\ fb_main.drv > MaxSlots
    /\ fb_main.drv = fb_drivers[fb_main.idx]
    /\ Unhealthy # {}

\* ======================================================================
\* Part X: check_connection_status and execute_multi_layer, call by call
NotCall == UNCHANGED <<survivalVars, supremeVars, engineVars, botVars, stopVars, sleepVars, waitVars, asyncVars>>

\* Texts are sequences of characters, so that "indicator in page_source"
\* is the substring test of Python.
TxtDisconnected ==
    <<"d", "i", "s", "c", "o", "n",
      "n", "e", "c", "t", "e", "d">>
TxtConnectTo == <<"c", "o", "n", "n", "e", "c", "t", " ", "t", "o">>
TxtRuntimeDisconnected ==
    <<"r", "u", "n", "t", "i", "m", "e", " ", "d", "i",
      "s", "c", "o", "n", "n", "e", "c", "t", "e", "d">>
TxtNotConnected ==
    <<"n", "o", "t", " ", "c", "o",
      "n", "n", "e", "c", "t", "e", "d">>
TxtConnected == <<"c", "o", "n", "n", "e", "c", "t", "e", "d">>
TxtRuntimeConnected ==
    <<"r", "u", "n", "t", "i", "m", "e", " ",
      "c", "o", "n", "n", "e", "c", "t", "e", "d">>
TxtGpu == <<"g", "p", "u">>
TxtTpu == <<"t", "p", "u">>
TxtBusy == <<"b", "u", "s", "y">>
TxtNewline == <<"\n">>

\* check_connection_status, disconnect_indicators (564-569).
KeeperDisconnectIndicators ==
    {TxtDisconnected, TxtConnectTo, TxtRuntimeDisconnected, TxtNotConnected}

\* check_connection_status, connect_indicators (572-577).
KeeperConnectIndicators == {TxtConnected, TxtRuntimeConnected, TxtGpu, TxtTpu}

\* "indicator in page_source": pat occurs in text as a substring.
Contains(text, pat) ==
    \E i \in 0 .. (Len(text) - Len(pat)) : SubSeq(text, i + 1, i + Len(pat)) = pat

\* The lines a Colab page is made of here: the status texts Colab shows
\* and one line without any indicator.
PageLines == {TxtRuntimeDisconnected, TxtNotConnected, TxtConnectTo,
              TxtRuntimeConnected, TxtGpu, TxtBusy}

\* self.driver.page_source.lower() (560): the lines of the page, each
\* followed by a newline.
RECURSIVE PageSource(_)
PageSource(lines) ==
    IF lines = <<>> THEN <<>>
    ELSE Head(lines) \o TxtNewline \o PageSource(Tail(lines))

\* The pages read: up to MaxPageLines lines.
KeeperPages == UNION {[1 .. n -> PageLines] : n \in 0 .. MaxPageLines}

\* Lines 580-581 and 583: "if has_disconnect and not has_connect".
ReportsDisconnected(page_source) ==
    LET has_disconnect == \E ind \in KeeperDisconnectIndicators : Contains(page_source, ind)
        has_connect == \E ind \in KeeperConnectIndicators : Contains(page_source, ind)
    IN  has_disconnect /\ ~has_connect

\* UltimateColabKeeper.check_connection_status (557-596): the value
\* returned, which is also stored in self.is_connected.  A read that raises
\* returns False.
check_connection_status(raised, page_source) ==
    IF raised THEN FALSE ELSE ~ReportsDisconnected(page_source)

\* One call of check_connection_status on a page, or on a browser whose
\* page cannot be read.
ConnCheck ==
    /\ \E shown \in KeeperPages, raised \in BOOLEAN :
          LET ret == check_connection_status(raised, PageSource(shown))
          IN  /\ is_connected' = ret
              /\ conn_call' = [page |-> shown, raised |-> raised, ret |-> ret,
                               called |-> TRUE]
    /\ UNCHANGED <<is_running, browser_healthy, keeper_driver, keeper_live,
                   keeper_created, total_cycles, successful_cycles,
                   keeper_failures, kpc, stop_pc>>
    /\ UNCHANGED <<keeper_navigated, reconnection_attempts, dashboard, last_cycle>>
    /\ UNCHANGED multi_call
    /\ NotCall

ConnNext == ConnCheck

SpecConn == Init /\ [][ConnNext]_vars

\* The page of the last call shows a disconnect indicator.
ShowsDisconnect ==
    \E ind \in KeeperDisconnectIndicators : Contains(PageSource(conn_call.page), ind)

\* C35 as stated: check_connection_status reports disconnected (returns
\* False and sets is_connected to False) whenever the page source contains a
\* disconnect indicator such as "disconnected", "runtime disconnected" or
\* "not connected", and reports connected only when none is present.
C35_DisconnectReported ==
    (conn_call.called /\ ~conn_call.raised) =>
        /\ ShowsDisconnect => (~conn_call.ret /\ ~is_connected)
        /\ conn_call.ret => ~ShowsDisconnect

\* ------------------------------------------------- execute_multi_layer
\* Line 834 without the filter: every strategy of the table is available.
AvailableAll(strats) == strats

\* Line 834: available = [s for s in self.strategies if s['id'] !=
\* 'multi_layer'].
Available(strats) == SelectSeq(strats, LAMBDA st : st.id # "multi_layer")

\* Line 835: random.sample(available, min(3, len(available))), as the
\* positions drawn: every ordered choice of distinct positions.
Samples(available) ==
    {pick \in [1 .. Min(3, Len(available)) -> 1 .. Len(available)] :
        \A i, j \in DOMAIN pick : i # j => pick[i] # pick[j]}

\* What a sub-strategy does when it is awaited: it returns a result with
\* success True or False, or it raises.
SubOutcomes == {"ok", "fail", "raise"}

\* Lines 837-844: the loop over the selected strategies from the i-th on.
\* A result is appended for every strategy run, False for one that raised
\* (843-844), and a success ends the loop (841-842).
RECURSIVE RunSelected(_, _, _)
RunSelected(outcomes, i, results) ==
    IF i > Len(outcomes) THEN results
    ELSE IF outcomes[i] = "ok" THEN Append(results, TRUE)
    ELSE RunSelected(outcomes, i + 1, Append(results, FALSE))

\* The ids of the strategies at the positions drawn.
SelectedIds(strats, pick) ==
    [i \in DOMAIN pick |-> Available(strats)[pick[i]].id]

\* StrategyEngine.execute_multi_layer (836-855) on the strategies selected:
\* those that were run, and success = any(results) (846).
execute_multi_layer(selected, outcomes) ==
    LET results == RunSelected(outcomes, 1, <<>>)
    IN  [selected |-> selected, outcomes |-> outcomes,
         ran |-> SubSeq(selected, 1, Len(results)),
         success |-> \E k \in DOMAIN results : results[k],
         phase |-> "done"]

\* execute_multi_layer is called on the strategy table of the engine and
\* draws its sample (830-835).
MultiSelect ==
    /\ multi_call.phase # "selected"
    /\ \E pick \in Samples(Available(engine_strategies)) :
          multi_call' = [NoMultiCall EXCEPT
                           !.selected = SelectedIds(engine_strategies, pick),
                           !.phase = "selected"]
    /\ UNCHANGED <<keeperVars, conn_call>>
    /\ NotCall

\* The call runs its sub-strategies and returns (837-855).
MultiRun ==
    /\ multi_call.phase = "selected"
    /\ \E outcomes \in [DOMAIN multi_call.selected -> SubOutcomes] :
          multi_call' = execute_multi_layer(multi_call.selected, outcomes)
    /\ UNCHANGED <<keeperVars, conn_call>>
    /\ NotCall

SpecMultiInit ==
    /\ SurvivalInit /\ KeeperInit /\ BotInit /\ StopInit /\ SleepInit /\ WaitInit /\ AsyncInit /\ CallInit
    /\ SupremeInit(load_strategies(TRUE), MaxTabs)
    /\ \E enable_cv \in BOOLEAN : EngineInit(TRUE, TRUE, enable_cv)

MultiNext == MultiSelect \/ MultiRun

SpecMulti == SpecMultiInit /\ [][MultiNext]_vars

\* C38: execute_multi_layer ends after running at most 3 sub-strategies:
\* it never selects itself, it runs the selected strategies in order and
\* stops at the first that succeeds, and it reports success if and only if
\* a sub-strategy it ran succeeded, one that raises counting as a failure.
C38_MultiLayerBounded ==
    multi_call.phase = "done" =>
        LET n == Len(multi_call.ran)
        IN  /\ n <= 3 /\ n <= Len(multi_call.selected)
            /\ multi_call.ran = SubSeq(multi_call.selected, 1, n)
            /\ \A k \in 1 .. Len(multi_call.selected) :
                  multi_call.selected[k] # "multi_layer"
            /\ \A k \in 1 .. (n - 1) : multi_call.outcomes[k] # "ok"
            /\ n < Len(multi_call.selected) => multi_call.outcomes[n] = "ok"
            /\ multi_call.success <=>
                  \E k \in 1 .. n : multi_call.outcomes[k] = "ok"

\* Two sub-strategies were run: the first raised, the second succeeded and
\* the third was not run.
C38_Witness ==
    /\ multi_call.phase = "done"
    /\ Len(multi_call.selected) = 3
    /\ Len(multi_call.ran) = 2
    /\ multi_call.outcomes[1] = "raise"
    /\ multi_call.outcomes[2] = "ok"
    /\ multi_call.success

============================================================================
